---- MODULE Spec2Model ----
(***************************************************************************)
(* BlueprintBuddy diagram engine: the BlueprintCanvas orchestrator with    *)
(* its StateManager (undo/redo, export/import), ConnectionManager,         *)
(* ComponentManager, PortManager and UIManager selection set.              *)
(*                                                                         *)
(* Ids and port keys are JavaScript strings on which the code runs         *)
(* startsWith, split, replace and a trailing-digits regex, so they are     *)
(* modelled as sequences of one-character strings.  Names and type tags    *)
(* are only compared and measured, so they are TLA+ strings.               *)
(***************************************************************************)
EXTENDS Integers, Sequences, FiniteSets, TLC

VARIABLES
    components,           \* BlueprintCanvas.components
    connections,          \* BlueprintCanvas.connections
    undoStack,            \* StateManager.undoStack
    redoStack,            \* StateManager.redoStack
    componentIdCounter,   \* ComponentManager.componentIdCounter
    portIdCounter,        \* PortManager.portIdCounter
    isCreatingConnection, \* ConnectionManager.isCreatingConnection
    startPort,            \* ConnectionManager.startPort (the port element's id)
    selectedComponents,   \* UIManager.selectedComponents
    pendingReads,         \* FileReader reads started by loadFromJson, not yet completed
    download,             \* the text of the file saveToJsonFile downloaded last
    clipboard,            \* StateManager.clipboard (null and [] both as <<>>)
    dragState,            \* BlueprintCanvas.dragState
    isSelecting,          \* UIManager.isSelecting
    selectionStart,       \* UIManager.selectionStart
    pointer,              \* where the mouse pointer is, in canvas coordinates
    editing,              \* the inline name editor editComponentName opened, if any
    lastOp,               \* the handler that ran last, its arguments and what it returned
    tracker,              \* observer: the graphs of the current run of committed mutations
    seenIds,              \* observer: the id of every component the live graph has held
    refs,                 \* observer: which object each stored or live component is
    steps                 \* number of handlers run so far

graphVars   == <<components, connections>>
historyVars == <<undoStack, redoStack>>
counterVars == <<componentIdCounter, portIdCounter>>
connectVars == <<isCreatingConnection, startPort>>
fileVars    == <<pendingReads, download>>
gestureVars == <<dragState, isSelecting, selectionStart, pointer, editing>>
vars == <<components, connections, undoStack, redoStack, componentIdCounter,
          portIdCounter, isCreatingConnection, startPort, selectedComponents,
          pendingReads, download, clipboard, dragState, isSelecting, selectionStart,
          pointer, editing, lastOp, tracker, seenIds, refs, steps>>

-----------------------------------------------------------------------------
(* Bounds of the model *)

MaxCoreSteps == 5        \* handlers run in one behaviour of SpecCore
MaxHistorySteps == 23    \* handlers run in one behaviour of SpecHistory
QuietSteps == 17         \* edits of a SpecHistory session before its first undo
MaxFileSteps == 4        \* handlers run in one behaviour of SpecFiles
MaxBuildSteps == 5       \* handlers run in one behaviour of SpecBuild
MaxBuildId == 6          \* presets and prompts are offered while the id counter is at most this
MaxComponentId == 3      \* createComponent is offered while the id counter is at most this
MaxTargets == 2          \* pointer events aim at the first MaxTargets components
MaxPendingReads == 1     \* file reads in flight at once
MaxPointerSteps == 6     \* handlers run in one behaviour of SpecPointer
MaxPortSteps == 4        \* handlers run in one behaviour of SpecPorts
MaxEditSteps == 3        \* handlers run in one behaviour of SpecEdit
MaxEditId == 8           \* SpecEdit offers creation while the id counter is at most this
MaxClipboardSteps == 5   \* handlers run in one behaviour of SpecClipboard
MaxDragSteps == 6        \* handlers run in one behaviour of SpecDrag
MaxSelectSteps == 7      \* handlers run in one behaviour of SpecSelect
MaxLayoutSteps == 4      \* handlers run in one behaviour of SpecLayout
MaxConnectSteps == 6     \* handlers run in one behaviour of SpecConnect
MaxAliasSteps == 5       \* handlers run in one behaviour of SpecAlias
MaxKeySteps == 5         \* handlers run in one behaviour of SpecKeys
MaxModeSteps == 6        \* handlers run in one behaviour of SpecModes
MaxDeleteSteps == 4
MaxDeleteId == 7          \* prompts are merged while the id counter is at most this
MaxSelectionSteps == 4
MaxRedoSteps == 6
MaxArrangeSteps == 6
MaxPresetSteps == 4      \* handlers run in one behaviour of SpecPresets

(* Program constants *)

maxUndoSteps == 20

-----------------------------------------------------------------------------
(* JavaScript strings as character sequences *)

NoString == <<>>

Min(S) == CHOOSE m \in S : \A n \in S : m <= n
Max(S) == CHOOSE m \in S : \A n \in S : m >= n
Max2(a, b) == IF a >= b THEN a ELSE b
Min2(a, b) == IF a <= b THEN a ELSE b

Digits == <<"0", "1", "2", "3", "4", "5", "6", "7", "8", "9">>
IsDigit(ch) == \E i \in 1..10 : Digits[i] = ch
DigitValue(ch) == (CHOOSE i \in 1..10 : Digits[i] = ch) - 1

RECURSIVE ToDecimal(_)
ToDecimal(n) ==
    IF n < 10 THEN <<Digits[n + 1]>>
    ELSE ToDecimal(n \div 10) \o <<Digits[(n % 10) + 1]>>

RECURSIVE ParseInt(_)
ParseInt(s) ==
    IF s = <<>> THEN 0
    ELSE 10 * ParseInt(SubSeq(s, 1, Len(s) - 1)) + DigitValue(s[Len(s)])

\* String.prototype.match(/(\d+)$/) followed by parseInt(match[1], 10), 0 without a match
TrailingNumber(s) ==
    LET starts == {i \in 1..Len(s) : \A j \in i..Len(s) : IsDigit(s[j])}
    IN  IF starts = {} THEN 0 ELSE ParseInt(SubSeq(s, Min(starts), Len(s)))

\* String.prototype.startsWith
StartsWith(s, p) == Len(p) <= Len(s) /\ SubSeq(s, 1, Len(p)) = p

\* String.prototype.split('-')[0]
SplitFirst(s) ==
    LET dashes == {i \in 1..Len(s) : s[i] = "-"}
    IN  IF dashes = {} THEN s ELSE SubSeq(s, 1, Min(dashes) - 1)

\* String.prototype.replace(p, r) with a string pattern: the first occurrence only
ReplaceFirst(s, p, r) ==
    LET at == {i \in 1..Len(s) : i + Len(p) - 1 <= Len(s) /\ SubSeq(s, i, i + Len(p) - 1) = p}
    IN  IF at = {} THEN s
        ELSE SubSeq(s, 1, Min(at) - 1) \o r \o SubSeq(s, Min(at) + Len(p), Len(s))

ComponentWord == <<"c", "o", "m", "p", "o", "n", "e", "n", "t">>
Dash == <<"-">>

\* `component-${n}`
ComponentIdOf(n) == ComponentWord \o Dash \o ToDecimal(n)

\* `${component.id}-${port.id}`, the id of a rendered port element
PortKey(componentId, portId) == componentId \o Dash \o portId

-----------------------------------------------------------------------------
(* Arrays *)

\* A function built entry by entry, held as the finished array / map of its values.
\* TLC keeps a function constructor as a rule to re-apply unless it is stored so.
Array(f) == f @@ <<>>
Table(f) == f @@ <<>>

\* Array.prototype.filter
Filter(seq, Keep(_)) == SelectSeq(seq, Keep)

\* Array.prototype.some
Some(seq, Test(_)) == \E i \in 1..Len(seq) : Test(seq[i])

\* Array.prototype.find, on an array known to hold a match
Find(seq, Test(_)) == seq[Min({i \in 1..Len(seq) : Test(seq[i])})]

Range(seq) == {seq[i] : i \in 1..Len(seq)}

HasComponent(comps, id) == \E i \in 1..Len(comps) : comps[i].id = id
ComponentById(comps, id) == comps[Min({i \in 1..Len(comps) : comps[i].id = id})]

-----------------------------------------------------------------------------
(* ComponentManager *)

InPortId == <<"i", "n", "1">>
OutPortId == <<"o", "u", "t", "1">>

ComponentTypes == {"function", "class", "module"}

defaultPorts(type) ==
    CASE type = "function" ->
            [inputs  |-> <<[name |-> "input1", id |-> InPortId, type |-> "any"]>>,
             outputs |-> <<[name |-> "output1", id |-> OutPortId, type |-> "any"]>>]
      [] type = "class" ->
            [inputs  |-> <<[name |-> "constructor", id |-> InPortId, type |-> "any"]>>,
             outputs |-> <<[name |-> "instance", id |-> OutPortId, type |-> "object"]>>]
      [] type = "module" ->
            [inputs  |-> <<[name |-> "import", id |-> InPortId, type |-> "any"]>>,
             outputs |-> <<[name |-> "export", id |-> OutPortId, type |-> "any"]>>]

\* ComponentManager.createComponent with the id counter at n (the caller advances it)
NewComponent(n, x, y, type) ==
    [id |-> ComponentIdOf(n), x |-> x, y |-> y, width |-> 200, height |-> 100,
     name |-> "New " \o type, type |-> type,
     inputs |-> defaultPorts(type).inputs, outputs |-> defaultPorts(type).outputs]

\* getComputedTextLength of the title in the 14px monospace face
TextWidth(name) == 8 * Len(name)

\* renderComponent recomputes and stores the component's height and width
renderComponent(c) ==
    [c EXCEPT !.height = 30 + Max2(Len(c.inputs) * 30, Len(c.outputs) * 30) + (20 * 2),
              !.width = Max2(150, TextWidth(c.name) + 40)]

renderAll(comps) == Array([i \in 1..Len(comps) |-> renderComponent(comps[i])])

\* the ids of the port elements renderPorts draws for the live components
RenderedPorts(comps, dir) ==
    UNION {{PortKey(comps[i].id, comps[i][dir][j].id) : j \in 1..Len(comps[i][dir])} :
            i \in 1..Len(comps)}

-----------------------------------------------------------------------------
(* PortManager *)

PortTypes == {"inputs", "outputs"}

\* `${portType.slice(0, 2)}${n}`
PortIdOf(portType, n) ==
    (IF portType = "inputs" THEN <<"i", "n">> ELSE <<"o", "u">>) \o ToDecimal(n)

\* PortManager.updateComponentHeight
updateComponentHeight(c) ==
    [c EXCEPT !.height = Max2(100, 25 + (Max2(Len(c.inputs), Len(c.outputs)) + 1) * 30)]

\* the port PortManager.addPort builds with the port id counter at n
newPort(c, portType, n) ==
    [name |-> (IF portType = "inputs" THEN "input" ELSE "output")
                \o ToString(Len(c[portType]) + 1),
     id |-> PortIdOf(portType, n),
     type |-> "any"]

\* addPort that puts the new port first
addPortFirst(c, portType, n) ==
    updateComponentHeight([c EXCEPT ![portType] = <<newPort(c, portType, n)>> \o @])

\* PortManager.addPort with the port id counter at n (the caller advances it)
addPort(c, portType, n) ==
    updateComponentHeight([c EXCEPT ![portType] = Append(@, newPort(c, portType, n))])

\* PortManager.removePort: every port of that id goes
removePort(c, portId, portType) ==
    IF Len(SelectSeq(c[portType], LAMBDA p : p.id # portId)) < Len(c[portType])
    THEN updateComponentHeight(
            [c EXCEPT ![portType] = SelectSeq(@, LAMBDA p : p.id # portId)])
    ELSE c

\* the components with the first one of that id replaced
withComponent(comps, componentId, c) ==
    Array([i \in 1..Len(comps) |->
            IF i = Min({k \in 1..Len(comps) : comps[k].id = componentId})
            THEN c ELSE comps[i]])

-----------------------------------------------------------------------------
(* StateManager: undo / redo *)

Snapshot(comps, conns) == [components |-> comps, connections |-> conns]

\* a push with no cap
pushUncapped(stack, comps, conns) == Append(stack, Snapshot(comps, conns))

\* saveState: the undo stack after pushing, capped at maxUndoSteps
saveStateUndo(stack, comps, conns) ==
    LET pushed == Append(stack, Snapshot(comps, conns))
    IN  IF Len(pushed) > maxUndoSteps THEN Tail(pushed) ELSE pushed

\* a saveState that keeps the forward history
keepRedo(stack) == stack

\* saveState: the redo stack afterwards
saveStateRedo(stack) == <<>>

Last(seq) == seq[Len(seq)]
Front(seq) == SubSeq(seq, 1, Len(seq) - 1)

\* StateManager.undo: what it returns (NoState for null) and the stacks afterwards
NoState == [components |-> <<>>, connections |-> <<>>, none |-> TRUE]

\* an undo that records the live state whether or not there is anything to undo
undoUnguarded(undo, redo, comps, conns) ==
    [state |-> IF Len(undo) = 0 THEN NoState ELSE Last(undo), found |-> Len(undo) # 0,
     undo |-> IF Len(undo) = 0 THEN undo ELSE Front(undo),
     redo |-> Append(redo, Snapshot(comps, conns))]

undoResult(undo, redo, comps, conns) ==
    IF Len(undo) = 0
    THEN [state |-> NoState, found |-> FALSE, undo |-> undo, redo |-> redo]
    ELSE [state |-> Last(undo), found |-> TRUE, undo |-> Front(undo),
          redo |-> Append(redo, Snapshot(comps, conns))]

\* a redo that hands back the live state
redoStays(undo, redo, comps, conns) ==
    IF Len(redo) = 0
    THEN [state |-> NoState, found |-> FALSE, undo |-> undo, redo |-> redo]
    ELSE [state |-> Snapshot(comps, conns), found |-> TRUE, redo |-> Front(redo),
          undo |-> Append(undo, Snapshot(comps, conns))]

\* StateManager.redo, likewise
redoResult(undo, redo, comps, conns) ==
    IF Len(redo) = 0
    THEN [state |-> NoState, found |-> FALSE, undo |-> undo, redo |-> redo]
    ELSE [state |-> Last(redo), found |-> TRUE, redo |-> Front(redo),
          undo |-> Append(undo, Snapshot(comps, conns))]

-----------------------------------------------------------------------------
(* ConnectionManager *)

\* a duplicate check that finds nothing
neverExists(fromPort, toPort, conns) == FALSE

\* connectionExists
connectionExists(fromPort, toPort, conns) ==
    \E i \in 1..Len(conns) : conns[i].from = fromPort /\ conns[i].to = toPort

HasPort(ports, portId) == \E j \in 1..Len(ports) : ports[j].id = portId
PortById(ports, portId) == ports[Min({j \in 1..Len(ports) : ports[j].id = portId})]

\* validateConnection that passes every pair
validatesAll(fromPort, toPort, comps) == [valid |-> TRUE, error |-> "", warning |-> ""]

\* validateConnection with the type check as a hard error
validatesTyped(fromPort, toPort, comps) ==
    LET fromComponentId == SplitFirst(fromPort)
        toComponentId == SplitFirst(toPort)
        fromPortId == ReplaceFirst(fromPort, fromComponentId \o Dash, NoString)
        toPortId == ReplaceFirst(toPort, toComponentId \o Dash, NoString)
    IN  IF ~HasComponent(comps, fromComponentId) \/ ~HasComponent(comps, toComponentId)
        THEN [valid |-> FALSE, error |-> "Component not found", warning |-> ""]
        ELSE IF ~HasPort(ComponentById(comps, fromComponentId).outputs, fromPortId)
        THEN [valid |-> FALSE, error |-> "From port not found or not an output", warning |-> ""]
        ELSE IF ~HasPort(ComponentById(comps, toComponentId).inputs, toPortId)
        THEN [valid |-> FALSE, error |-> "To port not found or not an input", warning |-> ""]
        ELSE LET fromType == PortById(ComponentById(comps, fromComponentId).outputs, fromPortId).type
                 toType == PortById(ComponentById(comps, toComponentId).inputs, toPortId).type
             IN  IF fromType # "any" /\ toType # "any" /\ fromType # toType
                 THEN [valid |-> FALSE, error |-> "Type mismatch", warning |-> ""]
                 ELSE [valid |-> TRUE, error |-> "", warning |-> ""]

\* validateConnection: [valid, error, warning]
validateConnection(fromPort, toPort, comps) ==
    LET fromComponentId == SplitFirst(fromPort)
        toComponentId == SplitFirst(toPort)
        fromPortId == ReplaceFirst(fromPort, fromComponentId \o Dash, NoString)
        toPortId == ReplaceFirst(toPort, toComponentId \o Dash, NoString)
    IN  IF ~HasComponent(comps, fromComponentId) \/ ~HasComponent(comps, toComponentId)
        THEN [valid |-> FALSE, error |-> "Component not found", warning |-> ""]
        ELSE IF ~HasPort(ComponentById(comps, fromComponentId).outputs, fromPortId)
        THEN [valid |-> FALSE, error |-> "From port not found or not an output", warning |-> ""]
        ELSE IF ~HasPort(ComponentById(comps, toComponentId).inputs, toPortId)
        THEN [valid |-> FALSE, error |-> "To port not found or not an input", warning |-> ""]
        ELSE LET fromType == PortById(ComponentById(comps, fromComponentId).outputs, fromPortId).type
                 toType == PortById(ComponentById(comps, toComponentId).inputs, toPortId).type
             IN  IF fromType # "any" /\ toType # "any" /\ fromType # toType
                 THEN [valid |-> TRUE, error |-> "", warning |-> "Type mismatch"]
                 ELSE [valid |-> TRUE, error |-> "", warning |-> ""]

-----------------------------------------------------------------------------
(* BlueprintCanvas.syncCounters *)

IdNumber(c) == TrailingNumber(c.id)
PortNumber(p) == TrailingNumber(p.id)
MaxPortNumber(c) ==
    Max({0} \cup {PortNumber((c.inputs \o c.outputs)[j]) : j \in 1..Len(c.inputs \o c.outputs)})

\* components.reduce(Math.max ..., 0)
MaxIdNumber(comps) == Max({0} \cup {IdNumber(comps[i]) : i \in 1..Len(comps)})
MaxPortId(comps) == Max({0} \cup {MaxPortNumber(comps[i]) : i \in 1..Len(comps)})

\* syncCounters that leaves the component id counter alone
syncNothing(comps, counter) == counter

syncComponentCounter(comps, counter) == Max2(counter, MaxIdNumber(comps) + 1)
syncPortCounter(comps, counter) == Max2(counter, MaxPortId(comps) + 1)

-----------------------------------------------------------------------------
(* BlueprintCanvas.autoLayout *)

\* parseCompId: the port key without its last dash-separated part
parseCompId(portKey) ==
    LET dashes == {i \in 1..Len(portKey) : portKey[i] = "-"}
    IN  IF dashes = {} THEN portKey ELSE SubSeq(portKey, 1, Max(dashes) - 1)

\* String.prototype.localeCompare on ids: punctuation, then digits, then letters
Collation == <<"-", "0", "1", "2", "3", "4", "5", "6", "7", "8", "9",
               "a", "A", "b", "B", "c", "C", "d", "D", "e", "i", "m", "n", "o", "p", "t", "u">>
CharRank(ch) == CHOOSE i \in 1..Len(Collation) : Collation[i] = ch

RECURSIVE localeCompare(_, _)
localeCompare(a, b) ==
    IF a = <<>> /\ b = <<>> THEN 0
    ELSE IF a = <<>> THEN -1
    ELSE IF b = <<>> THEN 1
    ELSE IF Head(a) = Head(b) THEN localeCompare(Tail(a), Tail(b))
    ELSE IF CharRank(Head(a)) < CharRank(Head(b)) THEN -1
    ELSE 1

\* Array.prototype.sort (stable) of the indices 1..n under a comparator given as the
\* table cmp[i][j]: each index goes to the place given by the number of indices that
\* sort before it
SortBy(n, cmp) ==
    LET rank == Array([i \in 1..n |->
                    Cardinality({j \in 1..n : cmp[j][i] < 0 \/ (cmp[j][i] = 0 /\ j < i)}) + 1])
    IN  Array([k \in 1..n |-> CHOOSE i \in 1..n : rank[i] = k])

\* The component-level edges and in-degrees built from the connections, edge by edge
RECURSIVE buildEdges(_, _, _)
buildEdges(conns, ids, acc) ==
    IF conns = <<>> THEN acc
    ELSE LET fromComp == parseCompId(Head(conns).from)
             toComp == parseCompId(Head(conns).to)
             skip == fromComp \notin ids \/ toComp \notin ids
                        \/ toComp \in Range(acc.edges[fromComp])
         IN  buildEdges(Tail(conns), ids,
                IF skip THEN acc
                ELSE [edges |-> [acc.edges EXCEPT ![fromComp] = Append(@, toComp)],
                      indegree |-> [acc.indegree EXCEPT ![toComp] = @ + 1]])

\* visitNext with the level kept from the first visit (breadth-first distance)
visitFirst(st, curLevel, next) ==
    LET newDeg == (IF st.indegree[next] = 0 THEN 1 ELSE st.indegree[next]) - 1
    IN  [queue |-> IF newDeg = 0 THEN Append(st.queue, next) ELSE st.queue,
         level |-> IF next \notin st.has THEN [st.level EXCEPT ![next] = curLevel + 1]
                   ELSE st.level,
         has |-> st.has \cup {next},
         indegree |-> [st.indegree EXCEPT ![next] = newDeg]]

\* One callback of edges.get(current).forEach: st is [queue, level, has, indegree]
visitNext(st, curLevel, next) ==
    LET nextLevel == curLevel + 1
        raise == next \notin st.has \/ nextLevel > st.level[next]
        newDeg == (IF st.indegree[next] = 0 THEN 1 ELSE st.indegree[next]) - 1
    IN  [queue |-> IF newDeg = 0 THEN Append(st.queue, next) ELSE st.queue,
         level |-> IF raise THEN [st.level EXCEPT ![next] = nextLevel] ELSE st.level,
         has |-> st.has \cup {next},
         indegree |-> [st.indegree EXCEPT ![next] = newDeg]]

RECURSIVE visitAll(_, _, _)
visitAll(st, curLevel, nexts) ==
    IF nexts = <<>> THEN st
    ELSE visitAll(visitNext(st, curLevel, Head(nexts)), curLevel, Tail(nexts))

\* One turn of the while loop: shift the queue, visit the successors
layerStep(st, edges) ==
    LET current == Head(st.queue)
        curLevel == IF current \in st.has THEN st.level[current] ELSE 0
    IN  visitAll([st EXCEPT !.queue = Tail(st.queue)], curLevel, edges[current])

\* The while loop.  When some id starts with in-degree 0 every id enters the queue
\* at most once, so a run that outlasts `turns` = |components| turns is the run that
\* never empties the queue (the all-roots fallback); it is cut there and reported.
RECURSIVE layerRun(_, _, _)
layerRun(st, edges, turns) ==
    IF st.queue = <<>> \/ turns = 0 THEN st
    ELSE layerRun(layerStep(st, edges), edges, turns - 1)

layerStart(comps, conns) ==
    LET ids == {comps[i].id : i \in 1..Len(comps)}
        built == buildEdges(conns, ids,
                    [edges |-> Table([id \in ids |-> <<>>]),
                     indegree |-> Table([id \in ids |-> 0])])
        order == Array([i \in 1..Len(comps) |-> comps[i].id])
        roots == SelectSeq(order, LAMBDA id : built.indegree[id] = 0)
        queue == IF roots = <<>> THEN order ELSE roots
    IN  [st |-> [queue |-> queue, level |-> Table([id \in ids |-> 0]),
                 has |-> Range(queue), indegree |-> built.indegree],
         edges |-> built.edges]

\* Whether the layering loop of autoLayout never ends on this graph
layeringHangs(comps, conns) ==
    LET start == layerStart(comps, conns)
    IN  layerRun(start.st, start.edges, Len(comps)).queue # <<>>

\* The level of every component id after the Kahn-style layering
layerOf(comps, conns) ==
    LET start == layerStart(comps, conns)
        done == layerRun(start.st, start.edges, Len(comps))
    IN  Table([id \in DOMAIN done.level |-> IF id \in done.has THEN done.level[id] ELSE 0])

\* levels ascending, each level's components ordered by id: lvl[i] is the level of
\* comps[i], place[i] its place in the order of all ids
rowPositions(comps, lvl, place, spacingX, spacingY) ==
    Array([i \in 1..Len(comps) |->
        [comps[i] EXCEPT
            !.x = 200 - (((Cardinality({j \in 1..Len(comps) : lvl[j] = lvl[i]}) - 1)
                              * spacingX) \div 2)
                      + Cardinality({j \in 1..Len(comps) :
                                        lvl[j] = lvl[i] /\ place[j] < place[i]}) * spacingX,
            !.y = 160 + Cardinality({m \in Range(lvl) : m < lvl[i]}) * spacingY]])

levelsOf(comps, level) == Array([i \in 1..Len(comps) |-> level[comps[i].id]])
placesOf(order) == Array([i \in 1..Len(order) |-> CHOOSE k \in 1..Len(order) : order[k] = i])
\* byId with the comparator on the current x, rightmost first
byXDescending(comps) ==
    Array([i \in 1..Len(comps) |->
        Array([j \in 1..Len(comps) |-> comps[j].x - comps[i].x])])
byId(comps) ==
    Array([i \in 1..Len(comps) |->
        Array([j \in 1..Len(comps) |-> localeCompare(comps[i].id, comps[j].id)])])
Widths(comps) == {0} \cup {comps[i].width : i \in 1..Len(comps)}
Heights(comps) == {0} \cup {comps[i].height : i \in 1..Len(comps)}

\* The row positions of autoLayout
placeRows(comps, conns) ==
    rowPositions(comps, levelsOf(comps, layerOf(comps, conns)),
                 placesOf(SortBy(Len(comps), byId(comps))),
                 Max(Widths(comps)) + 120, Max(Heights(comps)) + 120)

\* One comparison of the overlap pass: b is pushed by the overlap of the boxes of a and b
pushBy(comps, b, overlapX, overlapY) ==
    IF overlapX > 0 /\ overlapY > 0
    THEN [comps |-> IF overlapX >= overlapY
                    THEN [comps EXCEPT ![b].x = @ + overlapX + 40]
                    ELSE [comps EXCEPT ![b].y = @ + overlapY + 40],
          moved |-> TRUE]
    ELSE [comps |-> comps, moved |-> FALSE]

pushApart(comps, a, b) ==
    pushBy(comps, b,
           Min2(comps[a].x + comps[a].width, comps[b].x + comps[b].width)
               - Max2(comps[a].x, comps[b].x),
           Min2(comps[a].y + comps[a].height, comps[b].y + comps[b].height)
               - Max2(comps[a].y, comps[b].y))

\* One step of the nested loops for (i ...) for (j = i + 1 ...) over the sorted order:
\* st is [comps, moved, i, j]; past the last j the outer loop advances
pushed(st, r) == [comps |-> r.comps, moved |-> st.moved \/ r.moved, i |-> st.i, j |-> st.j + 1]

overlapStep(st, sorted) ==
    IF st.j > Len(sorted) THEN [st EXCEPT !.i = st.i + 1, !.j = st.i + 2]
    ELSE pushed(st, pushApart(st.comps, sorted[st.i], sorted[st.j]))

\* One pass of the nested loops
RECURSIVE overlapPass(_, _)
overlapPass(st, sorted) ==
    IF st.i > Len(sorted) THEN st ELSE overlapPass(overlapStep(st, sorted), sorted)

\* while (moved && passes < 10)
RECURSIVE overlapPasses(_, _, _)
RECURSIVE overlapAgain(_, _, _)
overlapPasses(comps, sorted, passes) ==
    IF passes >= 10 THEN comps
    ELSE overlapAgain(overlapPass([comps |-> comps, moved |-> FALSE, i |-> 1, j |-> 2], sorted),
                      sorted, passes)

overlapAgain(r, sorted, passes) ==
    IF r.moved THEN overlapPasses(r.comps, sorted, passes + 1) ELSE r.comps

\* compsSorted: the indices by (y, x)
byRow(placed) ==
    Array([i \in 1..Len(placed) |-> Array([j \in 1..Len(placed) |->
        IF placed[i].y # placed[j].y THEN placed[i].y - placed[j].y
        ELSE placed[i].x - placed[j].x])])

spread(placed) == overlapPasses(placed, SortBy(Len(placed), byRow(placed)), 0)

\* autoLayout on a non-empty graph: the components as re-rendered at their new places
autoLayout(comps, conns) == renderAll(spread(placeRows(comps, conns)))

-----------------------------------------------------------------------------
(* Presets of createPresetBlueprint *)

Node(name, type) == [name |-> name, type |-> type]

presetNodes(key) ==
    IF key = "realtime_analytics_gateway"
    THEN <<Node("Client", "module"), Node("API Gateway", "module"),
           Node("Realtime Service", "function"), Node("Analytics Service", "function"),
           Node("Message Broker", "module"), Node("Data Warehouse", "module")>>
    ELSE <<Node("Clients", "module"), Node("API Gateway", "module"),
           Node("Auth Service", "function"), Node("Product Service", "function"),
           Node("Order Service", "function"), Node("Payment Service", "function"),
           Node("Inventory Service", "function"), Node("Search Service", "function"),
           Node("Message Queue", "module"), Node("Cache", "module"),
           Node("Database", "module"), Node("Object Storage", "module")>>

presetEdges(key) ==
    IF key = "realtime_analytics_gateway"
    THEN <<<<"Client", "API Gateway">>, <<"API Gateway", "Realtime Service">>,
           <<"API Gateway", "Analytics Service">>, <<"Realtime Service", "Message Broker">>,
           <<"Message Broker", "Analytics Service">>, <<"Analytics Service", "Data Warehouse">>>>
    ELSE <<<<"Clients", "API Gateway">>, <<"API Gateway", "Auth Service">>,
           <<"API Gateway", "Product Service">>, <<"API Gateway", "Order Service">>,
           <<"API Gateway", "Search Service">>, <<"Order Service", "Payment Service">>,
           <<"Order Service", "Message Queue">>, <<"Payment Service", "Message Queue">>,
           <<"Inventory Service", "Message Queue">>, <<"Message Queue", "Inventory Service">>,
           <<"Product Service", "Cache">>, <<"Product Service", "Database">>,
           <<"Order Service", "Database">>, <<"Inventory Service", "Database">>,
           <<"Search Service", "Object Storage">>, <<"Product Service", "Object Storage">>>>

PresetKeys == {"realtime_analytics_gateway", "ecommerce"}

HasName(comps, name) == \E i \in 1..Len(comps) : comps[i].name = name
\* idByName: the map is filled in array order, so the last component of a name wins
IdByName(comps, name) == comps[Max({i \in 1..Len(comps) : comps[i].name = name})].id

\* The components createPresetBlueprint creates, the id counter starting at n
presetComponents(key, n) ==
    Array([i \in 1..Len(presetNodes(key)) |->
        [NewComponent(n + i - 1, 0, 0, presetNodes(key)[i].type)
            EXCEPT !.name = presetNodes(key)[i].name]])

\* The connection of one preset edge, or none
presetConnection(comps, edge) ==
    IF ~HasName(comps, edge[1]) \/ ~HasName(comps, edge[2]) THEN <<>>
    ELSE LET fromComp == ComponentById(comps, IdByName(comps, edge[1]))
             toComp == ComponentById(comps, IdByName(comps, edge[2]))
         IN  IF Len(fromComp.outputs) = 0 \/ Len(toComp.inputs) = 0 THEN <<>>
             ELSE <<[from |-> PortKey(fromComp.id, fromComp.outputs[1].id),
                     to |-> PortKey(toComp.id, toComp.inputs[1].id)]>>

RECURSIVE presetConnections(_, _)
presetConnections(comps, edges) ==
    IF edges = <<>> THEN <<>>
    ELSE presetConnection(comps, Head(edges)) \o presetConnections(comps, Tail(edges))

-----------------------------------------------------------------------------
(* createFromPrompt.  A prompt is known by whether it is empty and by which of the
   keywords of the domain table it contains *)

Prompt(words) == [empty |-> FALSE, words |-> words]
NoPrompt == [empty |-> TRUE, words |-> {}]

\* the first domain of domainSpecs one of whose keywords the prompt includes
matchDomain(words) ==
    IF words \cap {"microcontroller", "embedded", "iot", "sensor", "stepper"} # {}
    THEN "embedded"
    ELSE IF words \cap {"ecommerce", "shop", "product", "order", "cart", "checkout"} # {}
    THEN "ecommerce"
    ELSE IF words \cap {"analytics", "warehouse", "pipeline", "etl"} # {}
    THEN "analytics"
    ELSE "default"

promptNodes(domain) ==
    CASE domain = "embedded" ->
            <<Node("Microcontroller", "module"), Node("Motor Driver", "module"),
              Node("Stepper Motors", "module"), Node("Sensors", "module"),
              Node("Control Loop", "function"), Node("Telemetry/Uplink", "function")>>
      [] domain = "analytics" ->
            <<Node("Ingestion", "function"), Node("Stream Processor", "function"),
              Node("Data Lake", "module"), Node("Warehouse", "module"),
              Node("Dashboard", "module")>>
      [] OTHER ->
            <<Node("Client", "module"), Node("API", "module"),
              Node("Service A", "function"), Node("Service B", "function"),
              Node("Database", "module")>>

promptEdges(domain) ==
    CASE domain = "embedded" ->
            <<<<"Microcontroller", "Motor Driver">>, <<"Motor Driver", "Stepper Motors">>,
              <<"Sensors", "Control Loop">>, <<"Control Loop", "Motor Driver">>,
              <<"Control Loop", "Telemetry/Uplink">>>>
      [] domain = "analytics" ->
            <<<<"Ingestion", "Stream Processor">>, <<"Stream Processor", "Data Lake">>,
              <<"Stream Processor", "Warehouse">>, <<"Warehouse", "Dashboard">>>>
      [] OTHER ->
            <<<<"Client", "API">>, <<"API", "Service A">>, <<"API", "Service B">>,
              <<"Service A", "Database">>, <<"Service B", "Database">>>>

\* Array.prototype.find by name: the first component of that name
FirstByName(comps, name) == comps[Min({i \in 1..Len(comps) : comps[i].name = name})]

\* getOrCreateComponent on [comps, conns, counter]
getOrCreateComponent(st, name, type) ==
    IF HasName(st.comps, name) THEN st
    ELSE [st EXCEPT !.comps = Append(@, [NewComponent(st.counter, 0, 0, type)
                                            EXCEPT !.name = name]),
                    !.counter = @ + 1]

\* addConnectionByNames once both components are there
pushConnection(st, fromPort, toPort) ==
    IF connectionExists(fromPort, toPort, st.conns) THEN st
    ELSE [st EXCEPT !.conns = Append(@, [from |-> fromPort, to |-> toPort])]

joinComponents(st, fromComp, toComp) ==
    IF Len(fromComp.outputs) = 0 \/ Len(toComp.inputs) = 0 THEN st
    ELSE pushConnection(st, PortKey(fromComp.id, fromComp.outputs[1].id),
                            PortKey(toComp.id, toComp.inputs[1].id))

joinNames(st, fromName, toName) ==
    joinComponents(st, FirstByName(st.comps, fromName), FirstByName(st.comps, toName))

addConnectionByNames(st, fromName, toName) ==
    joinNames(getOrCreateComponent(getOrCreateComponent(st, fromName, "function"),
                                   toName, "function"), fromName, toName)

RECURSIVE mergeNodes(_, _, _)
mergeNodes(st, nodes, i) ==
    IF i > Len(nodes) THEN st
    ELSE mergeNodes(getOrCreateComponent(st, nodes[i].name, nodes[i].type), nodes, i + 1)

RECURSIVE mergeEdges(_, _, _)
mergeEdges(st, edges, i) ==
    IF i > Len(edges) THEN st
    ELSE mergeEdges(addConnectionByNames(st, edges[i][1], edges[i][2]), edges, i + 1)

\* nodes.forEach(getOrCreateComponent) then edges.forEach(addConnectionByNames)
mergePrompt(comps, conns, counter, domain) ==
    mergeEdges(mergeNodes([comps |-> comps, conns |-> conns, counter |-> counter],
                          promptNodes(domain), 1),
               promptEdges(domain), 1)

Prompts == {NoPrompt, Prompt({}), Prompt({"sensor"}), Prompt({"checkout"}),
            Prompt({"etl", "sensor"}), Prompt({"pipeline"})}

-----------------------------------------------------------------------------
(* StateManager: export / import.  A JSON text is modelled by its syntax tree:
   [t |-> "obj", members |-> <<[k, v], ...>>], [t |-> "arr", items |-> <<...>>],
   [t |-> "num" | "str", v |-> ...], [t |-> "null"]; [t |-> "invalid"] is a text
   JSON.parse rejects. *)

JNull == [t |-> "null"]
JNum(n) == [t |-> "num", v |-> n]
JStr(str) == [t |-> "str", v |-> str]
JArr(items) == [t |-> "arr", items |-> items]
JObj(members) == [t |-> "obj", members |-> members]
JInvalid == [t |-> "invalid"]
Member(k, v) == [k |-> k, v |-> v]

\* JSON.stringify of a port, a component, a connection: own properties in insertion order
stringifyPort(port) ==
    JObj(<<Member("name", JStr(port.name)), Member("id", JStr(port.id)),
           Member("type", JStr(port.type))>>)

stringifyPorts(ports) == JArr(Array([j \in 1..Len(ports) |-> stringifyPort(ports[j])]))

\* a stringify that loses the component's name
stringifyNameless(c) ==
    JObj(<<Member("id", JStr(c.id)), Member("x", JNum(c.x)), Member("y", JNum(c.y)),
           Member("width", JNum(c.width)), Member("height", JNum(c.height)),
           Member("type", JStr(c.type)),
           Member("inputs", stringifyPorts(c.inputs)),
           Member("outputs", stringifyPorts(c.outputs))>>)

stringifyComponent(c) ==
    JObj(<<Member("id", JStr(c.id)), Member("x", JNum(c.x)), Member("y", JNum(c.y)),
           Member("width", JNum(c.width)), Member("height", JNum(c.height)),
           Member("name", JStr(c.name)), Member("type", JStr(c.type)),
           Member("inputs", stringifyPorts(c.inputs)),
           Member("outputs", stringifyPorts(c.outputs))>>)

stringifyConnection(conn) ==
    JObj(<<Member("from", JStr(conn.from)), Member("to", JStr(conn.to))>>)

stringifyComponents(comps) == JArr(Array([i \in 1..Len(comps) |-> stringifyComponent(comps[i])]))
stringifyConnections(conns) == JArr(Array([i \in 1..Len(conns) |-> stringifyConnection(conns[i])]))

\* exportToJson; now is new Date().toISOString()
exportToJson(comps, conns, now) ==
    JObj(<<Member("components", stringifyComponents(comps)),
           Member("connections", stringifyConnections(conns)),
           Member("metadata", JObj(<<Member("version", JStr("1.0")),
                                     Member("timestamp", JStr(now))>>))>>)

\* JSON.parse of a well-formed text: objects become records, arrays sequences
RECURSIVE parseValue(_)
parseValue(j) ==
    CASE j.t = "num" -> j.v
      [] j.t = "str" -> j.v
      [] j.t = "null" -> [null |-> TRUE]
      [] j.t = "arr" -> Array([i \in 1..Len(j.items) |-> parseValue(j.items[i])])
      [] j.t = "obj" ->
            Table([k \in {j.members[i].k : i \in 1..Len(j.members)} |->
                parseValue(j.members[Max({i \in 1..Len(j.members) : j.members[i].k = k})].v)])

\* data[key] of the parsed text, as a tree; absent when data has no such property
HasMember(j, key) == j.t = "obj" /\ \E i \in 1..Len(j.members) : j.members[i].k = key
MemberOf(j, key) == j.members[Max({i \in 1..Len(j.members) : j.members[i].k = key})].v
\* Array.isArray(data[key])
IsArrayMember(j, key) == HasMember(j, key) /\ MemberOf(j, key).t = "arr"

\* !value for a JSON value
Falsy(j) ==
    \/ j.t = "null"
    \/ j.t = "false"
    \/ (j.t = "num" /\ j.v = 0)
    \/ (j.t = "str" /\ Len(j.v) = 0)

FormatError == "Invalid blueprint format: missing components or connections"

\* an import that asks for the components only
importLenient(text) ==
    IF text.t = "invalid"
    THEN [success |-> FALSE, error |-> "SyntaxError", components |-> <<>>, connections |-> <<>>]
    ELSE IF text.t = "null"
    THEN [success |-> FALSE, error |-> "TypeError", components |-> <<>>, connections |-> <<>>]
    ELSE IF ~HasMember(text, "components")
    THEN [success |-> FALSE, error |-> FormatError, components |-> <<>>, connections |-> <<>>]
    ELSE [success |-> TRUE, error |-> "",
          components |-> parseValue(MemberOf(text, "components")),
          connections |-> IF HasMember(text, "connections")
                          THEN parseValue(MemberOf(text, "connections")) ELSE <<>>]

\* importFromJson: [success, error, components, connections]
importFromJson(text) ==
    IF text.t = "invalid"
    THEN [success |-> FALSE, error |-> "SyntaxError", components |-> <<>>, connections |-> <<>>]
    ELSE IF text.t = "null"
    THEN [success |-> FALSE, error |-> "TypeError", components |-> <<>>, connections |-> <<>>]
    ELSE IF \/ ~HasMember(text, "components") \/ ~HasMember(text, "connections")
    THEN [success |-> FALSE, error |-> FormatError,
          components |-> <<>>, connections |-> <<>>]
    ELSE IF Falsy(MemberOf(text, "components")) \/ Falsy(MemberOf(text, "connections"))
    THEN [success |-> FALSE, error |-> FormatError,
          components |-> <<>>, connections |-> <<>>]
    ELSE [success |-> TRUE, error |-> "",
          components |-> parseValue(MemberOf(text, "components")),
          connections |-> parseValue(MemberOf(text, "connections"))]

\* The files and payloads offered to the loaders
PlainId(ch) == <<ch>>
DocComponent(id, x, y, type) ==
    [id |-> id, x |-> x, y |-> y, width |-> 200, height |-> 100, name |-> "New " \o type,
     type |-> type, inputs |-> defaultPorts(type).inputs, outputs |-> defaultPorts(type).outputs]

PlainComponents == <<DocComponent(PlainId("A"), 0, 0, "function"),
                     DocComponent(PlainId("B"), 300, 0, "function")>>
PlainConnections == <<[from |-> PortKey(PlainId("A"), OutPortId),
                       to |-> PortKey(PlainId("B"), InPortId)]>>
SavedComponents == <<DocComponent(ComponentIdOf(3), 0, 0, "function"),
                     DocComponent(ComponentIdOf(7), 300, 0, "module")>>
SavedConnections == <<[from |-> PortKey(ComponentIdOf(3), OutPortId),
                       to |-> PortKey(ComponentIdOf(7), InPortId)]>>

\* a blueprint whose ports carry types: class A (instance: object), function B
\* whose input takes a string
TypedComponents ==
    <<DocComponent(PlainId("A"), 0, 0, "class"),
      [DocComponent(PlainId("B"), 300, 0, "function") EXCEPT
            !.inputs = <<[name |-> "input1", id |-> InPortId, type |-> "string"]>>]>>

DocNames == {"plain", "saved", "unwired", "noConnections", "noComponents", "garbage"}

\* no file downloaded yet
NoFile == [t |-> "none"]

Document(name) ==
    CASE name = "plain" -> exportToJson(PlainComponents, PlainConnections, "t0")
      [] name = "saved" -> exportToJson(SavedComponents, SavedConnections, "t0")
      [] name = "unwired" -> exportToJson(PlainComponents, <<>>, "t0")
      [] name = "noConnections" ->
            JObj(<<Member("components", stringifyComponents(PlainComponents))>>)
      [] name = "noComponents" ->
            JObj(<<Member("connections", stringifyConnections(PlainConnections)),
                   Member("metadata", JObj(<<Member("version", JStr("1.0"))>>))>>)
      [] name = "garbage" -> JInvalid
      [] name = "typed" -> exportToJson(TypedComponents, <<>>, "t0")

\* The files the file chooser offers: the documents and the last download
FileNames == DocNames \cup (IF download = NoFile THEN {} ELSE {"download"})
FileText(name) == IF name = "download" THEN download ELSE Document(name)

-----------------------------------------------------------------------------
(* What a handler reports: its name, arguments, return value, and whether it
   called saveState *)

Op(name, arg, from, to, doc, result, saved) ==
    [op |-> name, arg |-> arg, from |-> from, to |-> to, doc |-> doc,
     result |-> result, saved |-> saved]

Graph == Snapshot(components, connections)

NoArg == NoString

Idle == [phase |-> "idle", graphs |-> <<>>, nUndo |-> 0, nRedo |-> 0]

\* The components a pointer event or a menu entry can aim at
TargetComponents == SubSeq(components, 1, Min2(Len(components), MaxTargets))
TargetIds == {TargetComponents[i].id : i \in 1..Len(TargetComponents)}

Positions == {<<100, 100>>}

\* no inline name editor is open
NoEdit == [active |-> FALSE, id |-> NoString, typed |-> FALSE, value |-> <<>>,
           currentName |-> ""]

\* The objects after the constructor (each named by the number of its allocation):
\* none live, none copied, and the empty snapshot saveState([], []) stored
NoRefs == [live |-> <<>>, undo |-> <<<<>>>>, redo |-> <<>>, clip |-> <<>>, next |-> 0]

\* UIManager.selectionStart and BlueprintCanvas.dragState before any gesture (null)
NoPoint == <<>>
NoDrag == [dragging |-> FALSE, startPoint |-> <<0, 0>>, startPositions |-> <<>>]

-----------------------------------------------------------------------------
(* The state after construction: the constructor seeds the undo history with
   the empty graph *)

Init ==
    /\ components = <<>>
    /\ connections = <<>>
    /\ undoStack = saveStateUndo(<<>>, <<>>, <<>>)
    /\ redoStack = <<>>
    /\ componentIdCounter = 1
    /\ portIdCounter = 1
    /\ isCreatingConnection = FALSE
    /\ startPort = NoString
    /\ selectedComponents = {}
    /\ pendingReads = <<>>
    /\ download = NoFile
    /\ clipboard = <<>>
    /\ dragState = NoDrag
    /\ isSelecting = FALSE
    /\ selectionStart = NoPoint
    /\ pointer = <<0, 0>>
    /\ editing = NoEdit
    /\ lastOp = Op("constructor", NoArg, NoArg, NoArg, "", "", TRUE)
    /\ tracker = Idle
    /\ seenIds = {}
    /\ refs = NoRefs
    /\ steps = 0

-----------------------------------------------------------------------------
(* Handlers *)

\* BlueprintCanvas.createComponent
CreateComponent(x, y, type) ==
    /\ LET c == renderComponent(NewComponent(componentIdCounter, x, y, type))
           comps == Append(components, c)
       IN  /\ components' = comps
           /\ undoStack' = saveStateUndo(undoStack, comps, connections)
           /\ redoStack' = saveStateRedo(redoStack)
           /\ componentIdCounter' = syncComponentCounter(comps, componentIdCounter + 1)
           /\ portIdCounter' = syncPortCounter(comps, portIdCounter)
           /\ lastOp' = Op("createComponent", c.id, NoArg, NoArg, "", "created", TRUE)
    /\ UNCHANGED <<connections, connectVars, selectedComponents, fileVars, clipboard, gestureVars>>

\* mousedown on an output port: onConnectionStart -> ConnectionManager.startConnection
StartConnection(port) ==
    /\ port \in RenderedPorts(TargetComponents, "outputs")
    /\ isCreatingConnection' = TRUE
    /\ startPort' = port
    /\ lastOp' = Op("startConnection", port, NoArg, NoArg, "", "started", FALSE)
    /\ UNCHANGED <<graphVars, historyVars, counterVars, selectedComponents, fileVars, clipboard, gestureVars>>

\* onConnectionFinish with finishConnection clearing the pending connection only
\* when it returns a pair that is then added
finishKeepsRejected(port) ==
    /\ port \in RenderedPorts(TargetComponents, "inputs")
    /\ IF ~isCreatingConnection \/ startPort = NoString
       THEN /\ lastOp' = Op("finishConnection", port, NoArg, port, "", "null", FALSE)
            /\ UNCHANGED <<graphVars, historyVars, connectVars>>
       ELSE LET connection == [from |-> startPort, to |-> port]
                validation == validateConnection(connection.from, connection.to, components)
                conns == Append(connections, connection)
            IN  IF connectionExists(connection.from, connection.to, connections)
                THEN /\ lastOp' = Op("finishConnection", port, connection.from,
                                     connection.to, "", "duplicate", FALSE)
                     /\ UNCHANGED <<graphVars, historyVars, connectVars>>
                ELSE IF ~validation.valid
                THEN /\ lastOp' = Op("finishConnection", port, connection.from,
                                     connection.to, "", "invalid", FALSE)
                     /\ UNCHANGED <<graphVars, historyVars, connectVars>>
                ELSE /\ connections' = conns
                     /\ isCreatingConnection' = FALSE
                     /\ startPort' = NoString
                     /\ undoStack' = saveStateUndo(undoStack, components, conns)
                     /\ redoStack' = saveStateRedo(redoStack)
                     /\ lastOp' = Op("finishConnection", port, connection.from,
                                     connection.to, "", "accepted", TRUE)
                     /\ UNCHANGED components
    /\ UNCHANGED <<counterVars, selectedComponents, fileVars, clipboard, gestureVars>>

\* mousedown on an input port: onConnectionFinish, with ConnectionManager.finishConnection
FinishConnection(port) ==
    /\ port \in RenderedPorts(TargetComponents, "inputs")
    /\ IF ~isCreatingConnection \/ startPort = NoString
       THEN /\ lastOp' = Op("finishConnection", port, NoArg, port, "", "null", FALSE)
            /\ UNCHANGED <<graphVars, historyVars, connectVars>>
       ELSE LET connection == [from |-> startPort, to |-> port]
                validation == validateConnection(connection.from, connection.to, components)
                conns == Append(connections, connection)
            IN  /\ isCreatingConnection' = FALSE
                /\ startPort' = NoString
                /\ IF connectionExists(connection.from, connection.to, connections)
                   THEN /\ lastOp' = Op("finishConnection", port, connection.from,
                                        connection.to, "", "duplicate", FALSE)
                        /\ UNCHANGED <<graphVars, historyVars>>
                   ELSE IF ~validation.valid
                   THEN /\ lastOp' = Op("finishConnection", port, connection.from,
                                        connection.to, "", "invalid", FALSE)
                        /\ UNCHANGED <<graphVars, historyVars>>
                   ELSE /\ connections' = conns
                        /\ undoStack' = saveStateUndo(undoStack, components, conns)
                        /\ redoStack' = saveStateRedo(redoStack)
                        /\ lastOp' = Op("finishConnection", port, connection.from,
                                        connection.to, "", "accepted", TRUE)
                        /\ UNCHANGED components
    /\ UNCHANGED <<counterVars, selectedComponents, fileVars, clipboard, gestureVars>>

\* mouseup on the svg: setupConnectionDrawing cancels a pending connection
MouseUp ==
    /\ isCreatingConnection' = FALSE
    /\ startPort' = IF isCreatingConnection THEN NoString ELSE startPort
    /\ lastOp' = Op("mouseup", NoArg, NoArg, NoArg, "",
                    IF isCreatingConnection THEN "cancelled" ELSE "ignored", FALSE)
    /\ UNCHANGED <<graphVars, historyVars, counterVars, selectedComponents, fileVars, clipboard, gestureVars>>

\* deleteComponent without the cascade
keptAll(conns, componentId) == conns

\* The connections deleteComponent keeps
keptConnections(conns, componentId) ==
    SelectSeq(conns, LAMBDA conn :
        ~(StartsWith(conn.from, componentId) \/ StartsWith(conn.to, componentId)))

\* deleteComponent without uiManager.deselectComponent
deleteStaysSelected(componentId) ==
    /\ LET conns == keptConnections(connections, componentId)
           comps == SelectSeq(components, LAMBDA c : c.id # componentId)
       IN  /\ connections' = conns
           /\ components' = comps
           /\ undoStack' = saveStateUndo(undoStack, comps, conns)
           /\ redoStack' = saveStateRedo(redoStack)
           /\ lastOp' = Op("deleteComponent", componentId, NoArg, NoArg, "",
                           IF HasComponent(components, componentId)
                           THEN "deleted" ELSE "missing", TRUE)
    /\ UNCHANGED <<counterVars, connectVars, selectedComponents, fileVars, clipboard, gestureVars>>

\* BlueprintCanvas.deleteComponent
DeleteComponent(componentId) ==
    /\ LET conns == keptConnections(connections, componentId)
           comps == SelectSeq(components, LAMBDA c : c.id # componentId)
       IN  /\ connections' = conns
           /\ components' = comps
           /\ selectedComponents' = selectedComponents \ {componentId}
           /\ undoStack' = saveStateUndo(undoStack, comps, conns)
           /\ redoStack' = saveStateRedo(redoStack)
           /\ lastOp' = Op("deleteComponent", componentId, NoArg, NoArg, "",
                           IF HasComponent(components, componentId)
                           THEN "deleted" ELSE "missing", TRUE)
    /\ UNCHANGED <<counterVars, connectVars, fileVars, clipboard, gestureVars>>

\* BlueprintCanvas.loadState: the live components after rendering a stored state
loadStateComponents(state) == renderAll(state.components)

\* BlueprintCanvas.undo
Undo ==
    LET r == undoResult(undoStack, redoStack, components, connections)
    IN  /\ undoStack' = r.undo
        /\ redoStack' = r.redo
        /\ IF r.found
           THEN /\ components' = loadStateComponents(r.state)
                /\ connections' = r.state.connections
                /\ componentIdCounter' =
                        syncComponentCounter(loadStateComponents(r.state), componentIdCounter)
                /\ portIdCounter' = syncPortCounter(loadStateComponents(r.state), portIdCounter)
                /\ lastOp' = Op("undo", NoArg, NoArg, NoArg, "", "restored", FALSE)
           ELSE /\ lastOp' = Op("undo", NoArg, NoArg, NoArg, "", "null", FALSE)
                /\ UNCHANGED <<graphVars, counterVars>>
        /\ UNCHANGED <<connectVars, selectedComponents, fileVars, clipboard, gestureVars>>

\* BlueprintCanvas.redo
Redo ==
    LET r == redoResult(undoStack, redoStack, components, connections)
    IN  /\ undoStack' = r.undo
        /\ redoStack' = r.redo
        /\ IF r.found
           THEN /\ components' = loadStateComponents(r.state)
                /\ connections' = r.state.connections
                /\ componentIdCounter' =
                        syncComponentCounter(loadStateComponents(r.state), componentIdCounter)
                /\ portIdCounter' = syncPortCounter(loadStateComponents(r.state), portIdCounter)
                /\ lastOp' = Op("redo", NoArg, NoArg, NoArg, "", "restored", FALSE)
           ELSE /\ lastOp' = Op("redo", NoArg, NoArg, NoArg, "", "null", FALSE)
                /\ UNCHANGED <<graphVars, counterVars>>
        /\ UNCHANGED <<connectVars, selectedComponents, fileVars, clipboard, gestureVars>>

\* BlueprintCanvas.createPresetBlueprint: clear, create, wire, autoLayout (which
\* saves), save again; the counters are not synced.  caller is the handler that ran it
presetBlueprint(key, caller) ==
    /\ \E created \in {renderAll(presetComponents(key, componentIdCounter))} :
       \E conns \in {presetConnections(created, presetEdges(key))} :
           /\ componentIdCounter' = componentIdCounter + Len(created)
           /\ connections' = conns
           /\ IF layeringHangs(created, conns)
              THEN /\ components' = created
                   /\ UNCHANGED historyVars
                   /\ lastOp' = Op(caller, NoArg, NoArg, NoArg, key, "hang", FALSE)
              ELSE \E laid \in {autoLayout(created, conns)} :
                       /\ components' = laid
                       /\ redoStack' = saveStateRedo(redoStack)
                       /\ undoStack' = saveStateUndo(saveStateUndo(undoStack, laid, conns),
                                                     laid, conns)
                       /\ lastOp' = Op(caller, NoArg, NoArg, NoArg, key, "loaded", TRUE)
    /\ UNCHANGED <<portIdCounter, connectVars, selectedComponents, fileVars, clipboard, gestureVars>>

\* presets[presetKey] || presets.ecommerce also finds what the object literal
\* inherits from Object.prototype: for such a key spec is a function, the diagram
\* is cleared, and spec.nodes.forEach throws a TypeError
InheritedKeys == {"constructor", "toString"}

CreatePresetBlueprint(key) ==
    IF key \in InheritedKeys
    THEN /\ components' = <<>>
         /\ connections' = <<>>
         /\ lastOp' = Op("createPresetBlueprint", NoArg, NoArg, NoArg, key, "TypeError", FALSE)
         /\ UNCHANGED <<historyVars, counterVars, connectVars, selectedComponents, fileVars,
                        clipboard, gestureVars>>
    ELSE presetBlueprint(key, "createPresetBlueprint")

\* BlueprintCanvas.createFromPrompt: merge the matched domain into the diagram,
\* autoLayout (which saves), save again
CreateFromPrompt(prompt) ==
    IF prompt.empty
    THEN /\ lastOp' = Op("createFromPrompt", NoArg, NoArg, NoArg, "", "ignored", FALSE)
         /\ UNCHANGED <<graphVars, historyVars, counterVars, connectVars,
                        selectedComponents, fileVars, clipboard, gestureVars>>
    ELSE IF matchDomain(prompt.words) = "ecommerce"
    THEN presetBlueprint("ecommerce", "createFromPrompt")
    ELSE /\ \E built \in {mergePrompt(components, connections, componentIdCounter,
                                      matchDomain(prompt.words))} :
            \E drawn \in {renderAll(built.comps)} :
                /\ componentIdCounter' = built.counter
                /\ connections' = built.conns
                /\ IF layeringHangs(drawn, built.conns)
                   THEN /\ components' = drawn
                        /\ UNCHANGED historyVars
                        /\ lastOp' = Op("createFromPrompt", NoArg, NoArg, NoArg,
                                        matchDomain(prompt.words), "hang", FALSE)
                   ELSE \E laid \in {autoLayout(drawn, built.conns)} :
                            /\ components' = laid
                            /\ undoStack' = saveStateUndo(
                                    saveStateUndo(undoStack, laid, built.conns),
                                    laid, built.conns)
                            /\ redoStack' = saveStateRedo(redoStack)
                            /\ lastOp' = Op("createFromPrompt", NoArg, NoArg, NoArg,
                                            matchDomain(prompt.words), "merged", TRUE)
         /\ UNCHANGED <<portIdCounter, connectVars, selectedComponents, fileVars, clipboard, gestureVars>>

\* BlueprintCanvas.loadBlueprint with the blueprint of an API response
LoadBlueprint(doc) ==
    /\ Document(doc).t = "obj"
    /\ IF ~IsArrayMember(Document(doc), "components")
          \/ ~IsArrayMember(Document(doc), "connections")
       THEN /\ lastOp' = Op("loadBlueprint", NoArg, NoArg, NoArg, doc, "invalid", FALSE)
            /\ UNCHANGED <<graphVars, historyVars, counterVars>>
       ELSE \E comps \in {renderAll(parseValue(MemberOf(Document(doc), "components")))} :
            \E conns \in {parseValue(MemberOf(Document(doc), "connections"))} :
                /\ components' = comps
                /\ connections' = conns
                /\ componentIdCounter' = syncComponentCounter(comps, componentIdCounter)
                /\ portIdCounter' = syncPortCounter(comps, portIdCounter)
                /\ undoStack' = saveStateUndo(undoStack, comps, conns)
                /\ redoStack' = saveStateRedo(redoStack)
                /\ lastOp' = Op("loadBlueprint", NoArg, NoArg, NoArg, doc, "loaded", TRUE)
    /\ UNCHANGED <<connectVars, selectedComponents, fileVars, clipboard, gestureVars>>

\* BlueprintCanvas.autoLayout called on its own (the /layout chat command): nothing
\* on the empty canvas; otherwise the layering loop, the rows, the overlap passes,
\* the re-render and one saveState
AutoLayout ==
    /\ IF components = <<>>
       THEN /\ lastOp' = Op("autoLayout", NoArg, NoArg, NoArg, "", "empty", FALSE)
            /\ UNCHANGED <<components, historyVars>>
       ELSE IF layeringHangs(components, connections)
       THEN /\ lastOp' = Op("autoLayout", NoArg, NoArg, NoArg, "", "hang", FALSE)
            /\ UNCHANGED <<components, historyVars>>
       ELSE \E laid \in {autoLayout(components, connections)} :
                /\ components' = laid
                /\ undoStack' = saveStateUndo(undoStack, laid, connections)
                /\ redoStack' = saveStateRedo(redoStack)
                /\ lastOp' = Op("autoLayout", NoArg, NoArg, NoArg, "", "laid", TRUE)
    /\ UNCHANGED <<connections, counterVars, connectVars, selectedComponents, fileVars,
                   clipboard, gestureVars>>

\* The blueprints of an API response: function components with one-letter ids in
\* the given order, wired out1 -> in1 along the chosen edges
GraphOrders == {<<"A", "B", "C", "D">>, <<"C", "D", "B", "A">>, <<"A", "B">>}
GraphEdges == <<<<"A", "B">>, <<"A", "C">>, <<"B", "D">>, <<"C", "D">>, <<"D", "B">>,
                <<"C", "B">>, <<"B", "C">>, <<"A", "A">>, <<"D", "A">>>>
GraphComponents(order) ==
    Array([i \in 1..Len(order) |-> DocComponent(PlainId(order[i]), 0, 0, "function")])
GraphConnections(chosen) ==
    LET wire(e) == [from |-> PortKey(PlainId(e[1]), OutPortId),
                    to |-> PortKey(PlainId(e[2]), InPortId)]
        picked == SelectSeq(GraphEdges, LAMBDA e : e \in chosen)
    IN  Array([i \in 1..Len(picked) |-> wire(picked[i])])

\* BlueprintCanvas.loadBlueprint with such a blueprint
LoadGraph(order, chosen) ==
    /\ \E comps \in {renderAll(GraphComponents(order))} :
       \E conns \in {GraphConnections(chosen)} :
            /\ components' = comps
            /\ connections' = conns
            /\ componentIdCounter' = syncComponentCounter(comps, componentIdCounter)
            /\ portIdCounter' = syncPortCounter(comps, portIdCounter)
            /\ undoStack' = saveStateUndo(undoStack, comps, conns)
            /\ redoStack' = saveStateRedo(redoStack)
            /\ lastOp' = Op("loadBlueprint", NoArg, NoArg, NoArg, "graph", "loaded", TRUE)
    /\ UNCHANGED <<connectVars, selectedComponents, fileVars, clipboard, gestureVars>>

\* BlueprintCanvas.saveToJson: saveToJsonFile exports and downloads the text
SaveToJson(now) ==
    /\ download' = exportToJson(components, connections, now)
    /\ lastOp' = Op("saveToJson", NoArg, NoArg, NoArg, "", "true", FALSE)
    /\ UNCHANGED <<graphVars, historyVars, counterVars, connectVars, selectedComponents,
                   pendingReads, clipboard, gestureVars>>

\* BlueprintCanvas.loadFromJson up to its await: the FileReader starts reading
StartLoadFromJson(doc) ==
    /\ doc \in FileNames
    /\ Len(pendingReads) < MaxPendingReads
    /\ pendingReads' = Append(pendingReads, [doc |-> doc, text |-> FileText(doc)])
    /\ lastOp' = Op("loadFromJson", NoArg, NoArg, NoArg, doc, "reading", FALSE)
    /\ UNCHANGED <<graphVars, historyVars, counterVars, connectVars, selectedComponents,
                   download, clipboard, gestureVars>>

\* reader.onload of the k-th read in flight, and loadFromJson after its await
FinishLoadFromJson(k) ==
    /\ k \in 1..Len(pendingReads)
    /\ pendingReads' = SubSeq(pendingReads, 1, k - 1)
                        \o SubSeq(pendingReads, k + 1, Len(pendingReads))
    /\ \E result \in {importFromJson(pendingReads[k].text)} :
        IF ~result.success
        THEN /\ lastOp' = Op("onload", NoArg, NoArg, NoArg, pendingReads[k].doc,
                              result.error, FALSE)
             /\ UNCHANGED <<graphVars, historyVars, counterVars>>
        ELSE \E comps \in {loadStateComponents(result)} :
                /\ components' = comps
                /\ connections' = result.connections
                /\ componentIdCounter' = syncComponentCounter(comps, componentIdCounter)
                /\ portIdCounter' = syncPortCounter(comps, portIdCounter)
                /\ undoStack' = saveStateUndo(undoStack, comps, result.connections)
                /\ redoStack' = saveStateRedo(redoStack)
                /\ lastOp' = Op("onload", NoArg, NoArg, NoArg, pendingReads[k].doc,
                                "loaded", TRUE)
    /\ UNCHANGED <<connectVars, selectedComponents, download, clipboard, gestureVars>>

\* BlueprintCanvas.addPort: PortManager.addPort, rerenderComponent, saveState,
\* syncCounters; nothing for an id that is not among the components
AddPort(componentId, portType) ==
    /\ portType \in PortTypes
    /\ IF ~HasComponent(components, componentId)
       THEN /\ lastOp' = Op("addPort", componentId, NoArg, NoArg, portType, "ignored", FALSE)
            /\ UNCHANGED <<components, historyVars, counterVars>>
       ELSE \E c \in {renderComponent(addPort(ComponentById(components, componentId),
                                               portType, portIdCounter))} :
            \E comps \in {withComponent(components, componentId, c)} :
                /\ components' = comps
                /\ undoStack' = saveStateUndo(undoStack, comps, connections)
                /\ redoStack' = saveStateRedo(redoStack)
                /\ componentIdCounter' = syncComponentCounter(comps, componentIdCounter)
                /\ portIdCounter' = syncPortCounter(comps, portIdCounter + 1)
                /\ lastOp' = Op("addPort", componentId, NoArg, Last(c[portType]).id,
                                portType, "added", TRUE)
    /\ UNCHANGED <<connections, connectVars, selectedComponents, fileVars, clipboard, gestureVars>>

\* dblclick on the label of the j-th port of a direction: with more than one port
\* there, PortManager.removePort, rerenderComponent, onComponentUpdate (saveState)
RemovePort(componentId, portType, j) ==
    /\ portType \in PortTypes
    /\ componentId \in TargetIds
    /\ j \in 1..Len(ComponentById(components, componentId)[portType])
    /\ LET component == ComponentById(components, componentId)
           ports == component[portType]
       IN  IF Len(ports) > 1
           THEN \E c \in {renderComponent(removePort(component, ports[j].id, portType))} :
                \E comps \in {withComponent(components, componentId, c)} :
                    /\ components' = comps
                    /\ undoStack' = saveStateUndo(undoStack, comps, connections)
                    /\ redoStack' = saveStateRedo(redoStack)
                    /\ lastOp' = Op("removePort", componentId, NoArg, ports[j].id,
                                    portType, "removed", TRUE)
           ELSE /\ lastOp' = Op("removePort", componentId, NoArg, ports[j].id,
                                portType, "refused", FALSE)
                /\ UNCHANGED <<components, historyVars>>
    /\ UNCHANGED <<connections, counterVars, connectVars, selectedComponents, fileVars, clipboard, gestureVars>>

\* BlueprintCanvas.duplicateComponent: nothing for an id that is not among the
\* components; otherwise componentManager.getNextComponentId, which no class defines,
\* throws a TypeError before the copy is pushed
DuplicateComponent(componentId) ==
    /\ lastOp' = Op("duplicateComponent", componentId, NoArg, NoArg, "",
                    IF HasComponent(components, componentId) THEN "TypeError" ELSE "ignored",
                    FALSE)
    /\ UNCHANGED <<graphVars, historyVars, counterVars, connectVars, selectedComponents,
                   fileVars, clipboard, gestureVars>>

\* BlueprintCanvas.startRenaming: nothing for an id that is not among the components;
\* otherwise editComponentName opens the title's inline editor on the current name,
\* which touches no component
StartRenaming(componentId) ==
    /\ lastOp' = Op("startRenaming", componentId, NoArg, NoArg, "",
                    IF HasComponent(components, componentId) THEN "editing" ELSE "ignored",
                    FALSE)
    /\ editing' = IF HasComponent(components, componentId)
                  THEN [active |-> TRUE, id |-> componentId, typed |-> FALSE, value |-> <<>>,
                        currentName |-> ComponentById(components, componentId).name]
                  ELSE editing
    /\ UNCHANGED <<graphVars, historyVars, counterVars, connectVars, selectedComponents,
                   fileVars, clipboard, dragState, isSelecting, selectionStart, pointer>>

\* String.prototype.trim on the characters typed
RECURSIVE trimStart(_)
trimStart(chars) ==
    IF chars # <<>> /\ Head(chars) = " " THEN trimStart(Tail(chars)) ELSE chars
RECURSIVE trimEnd(_)
trimEnd(chars) ==
    IF chars # <<>> /\ Last(chars) = " " THEN trimEnd(Front(chars)) ELSE chars
trim(chars) == trimEnd(trimStart(chars))

\* the string of a sequence of characters
RECURSIVE Joined(_)
Joined(chars) == IF chars = <<>> THEN "" ELSE Head(chars) \o Joined(Tail(chars))

\* input.value.trim(): the title as it stood (no title has outer blanks) until
\* something is typed
trimmedValue(e) == IF e.typed THEN Joined(trim(e.value)) ELSE e.currentName

\* typing in the inline editor replaces the input's value
TypeName(chars) ==
    /\ editing.active
    /\ editing' = [editing EXCEPT !.typed = TRUE, !.value = chars]
    /\ lastOp' = Op("typeName", editing.id, NoArg, NoArg, Joined(chars), "typed", FALSE)
    /\ UNCHANGED <<graphVars, historyVars, counterVars, connectVars, selectedComponents,
                   fileVars, clipboard, dragState, isSelecting, selectionStart, pointer>>

\* finishEdit run `times` times on the editor e: a name that is non-empty and differs
\* from the title as it stood when the editor opened is stored and onComponentUpdate
\* saves the state, each time
renamed(comps, e) ==
    Array([i \in 1..Len(comps) |->
        IF comps[i].id = e.id THEN [comps[i] EXCEPT !.name = trimmedValue(e)] ELSE comps[i]])

finishesEdit(e) == trimmedValue(e) # "" /\ trimmedValue(e) # e.currentName

RECURSIVE savedTimes(_, _, _, _)
savedTimes(stack, comps, conns, times) ==
    IF times = 0 THEN stack
    ELSE savedTimes(saveStateUndo(stack, comps, conns), comps, conns, times - 1)

finishEdit(name, result, times) ==
    /\ IF times > 0 /\ finishesEdit(editing)
       THEN /\ components' = renamed(components, editing)
            /\ undoStack' = savedTimes(undoStack, renamed(components, editing),
                                       connections, times)
            /\ redoStack' = saveStateRedo(redoStack)
            /\ lastOp' = Op(name, editing.id, NoArg, NoArg, trimmedValue(editing),
                            "renamed", TRUE)
       ELSE /\ lastOp' = Op(name, editing.id, NoArg, NoArg, trimmedValue(editing),
                            result, FALSE)
            /\ UNCHANGED <<components, historyVars>>
    /\ editing' = NoEdit

\* Enter in the inline editor: finishEdit, whose foreign.remove() takes the focused
\* input out of the document; where the browser then fires blur on it, the blur
\* listener runs finishEdit once more inside the first
EnterName(blurFires) ==
    /\ editing.active
    /\ finishEdit("enterName", "kept", IF blurFires THEN 2 ELSE 1)
    /\ UNCHANGED <<connections, counterVars, connectVars, selectedComponents, fileVars,
                   clipboard, dragState, isSelecting, selectionStart, pointer>>

\* the input loses the focus (a click elsewhere): the blur listener runs finishEdit
BlurName ==
    /\ editing.active
    /\ finishEdit("blurName", "kept", 1)
    /\ UNCHANGED <<connections, counterVars, connectVars, selectedComponents, fileVars,
                   clipboard, dragState, isSelecting, selectionStart, pointer>>

\* Escape.  In the inline editor the input's keydown listener removes the editor,
\* and where the browser fires blur on the removed input the blur listener runs
\* finishEdit; the event then bubbles to the document's keydown listener, which
\* calls UIManager.clearSelection.  Without an editor only the latter runs.
Escape(blurFires) ==
    /\ selectedComponents' = {}
    /\ IF editing.active
       THEN finishEdit("escape", "abandoned", IF blurFires THEN 1 ELSE 0)
       ELSE /\ lastOp' = Op("escape", NoArg, NoArg, NoArg, "", "cleared", FALSE)
            /\ UNCHANGED <<components, historyVars, editing>>
    /\ UNCHANGED <<connections, counterVars, connectVars, fileVars, clipboard,
                   dragState, isSelecting, selectionStart, pointer>>

\* Ctrl+A: UIManager.selectAll adds every rendered component to the selection
SelectAll ==
    /\ selectedComponents' =
            selectedComponents \cup {components[i].id : i \in 1..Len(components)}
    /\ lastOp' = Op("selectAll", NoArg, NoArg, NoArg, "", "selected", FALSE)
    /\ UNCHANGED <<graphVars, historyVars, counterVars, connectVars, fileVars, clipboard, gestureVars>>

\* Ctrl+C: BlueprintCanvas.copySelectedComponents, with StateManager.copyComponents;
\* the selected ids that name a live component, as copies of those components
CopySelected ==
    /\ clipboard' = SelectSeq(components, LAMBDA c : c.id \in selectedComponents)
    /\ lastOp' = Op("copy", NoArg, NoArg, NoArg, "", "copied", FALSE)
    /\ UNCHANGED <<graphVars, historyVars, counterVars, connectVars, selectedComponents,
                   fileVars, gestureVars>>

\* Ctrl+V: BlueprintCanvas.pasteComponents.  With an empty clipboard it returns;
\* otherwise it clears the selection and, on the first entry, calls
\* componentManager.getNextComponentId, which no class defines: the TypeError
\* leaves the forEach before anything is pushed, selected or saved
Paste ==
    /\ IF clipboard = <<>>
       THEN /\ lastOp' = Op("paste", NoArg, NoArg, NoArg, "", "ignored", FALSE)
            /\ UNCHANGED selectedComponents
       ELSE /\ selectedComponents' = {}
            /\ lastOp' = Op("paste", NoArg, NoArg, NoArg, "", "TypeError", FALSE)
    /\ UNCHANGED <<graphVars, historyVars, counterVars, connectVars, fileVars, clipboard,
                   gestureVars>>

\* the positions drag start caches: of every selected id that names a live component
startPositionsOf(comps, selected) ==
    Table([id \in {i \in selected : HasComponent(comps, i)} |->
            <<ComponentById(comps, id).x, ComponentById(comps, id).y>>])

\* d3.drag 'start' on a component, the pointer at p: a component outside the
\* selection becomes the selection; the start point and positions are cached
DragStart(componentId, p) ==
    /\ componentId \in TargetIds
    /\ \E selected \in {IF componentId \in selectedComponents
                         THEN selectedComponents ELSE {componentId}} :
        /\ selectedComponents' = selected
        /\ dragState' = [dragging |-> TRUE, startPoint |-> p,
                         startPositions |-> startPositionsOf(components, selected)]
    /\ pointer' = p
    /\ lastOp' = Op("dragStart", componentId, NoArg, NoArg, "", "started", FALSE)
    /\ UNCHANGED <<graphVars, historyVars, counterVars, connectVars, fileVars, clipboard,
                   isSelecting, selectionStart, editing>>

\* the drag handler's move of one component: the cached start, or 0, plus the delta
draggedTo(c, state, selected, p) ==
    IF c.id \notin selected THEN c
    ELSE [c EXCEPT
            !.x = (IF c.id \in DOMAIN state.startPositions
                   THEN state.startPositions[c.id][1] ELSE 0) + (p[1] - state.startPoint[1]),
            !.y = (IF c.id \in DOMAIN state.startPositions
                   THEN state.startPositions[c.id][2] ELSE 0) + (p[2] - state.startPoint[2])]

\* d3.drag 'drag', the pointer now at p: every selected component that is rendered
\* is put at its cached position plus the pointer's delta; without a dragState
\* nothing moves.  (find moves the first component of an id; ids are distinct here)
DragMove(p) ==
    /\ IF ~dragState.dragging
       THEN UNCHANGED components
       ELSE components' = Array([i \in 1..Len(components) |->
                draggedTo(components[i], dragState, selectedComponents, p)])
    /\ pointer' = p
    /\ lastOp' = Op("drag", NoArg, NoArg, NoArg, "", "moved", FALSE)
    /\ UNCHANGED <<connections, historyVars, counterVars, connectVars, selectedComponents,
                   fileVars, clipboard, dragState, isSelecting, selectionStart, editing>>

\* d3.drag 'end': saveState, dragState = null
DragEnd ==
    /\ undoStack' = saveStateUndo(undoStack, components, connections)
    /\ redoStack' = saveStateRedo(redoStack)
    /\ dragState' = NoDrag
    /\ lastOp' = Op("dragEnd", NoArg, NoArg, NoArg, "", "dropped", TRUE)
    /\ UNCHANGED <<graphVars, counterVars, connectVars, selectedComponents, fileVars,
                   clipboard, isSelecting, selectionStart, pointer, editing>>

\* the rectangle selectComponentsInBox tests: the translate of the component's group
\* plus its bounding box, taken as the component's rectangle
onComponent(c, p) ==
    /\ c.x <= p[1] /\ p[1] <= c.x + c.width
    /\ c.y <= p[2] /\ p[2] <= c.y + c.height

\* mousedown on the svg background or the grid, at p: setupSelectionBox starts a
\* selection box there.  A press on a component never gets here (d3.drag stops it)
BoxPress(p) ==
    /\ \A i \in 1..Len(components) : ~onComponent(components[i], p)
    /\ isSelecting' = TRUE
    /\ selectionStart' = p
    /\ pointer' = p
    /\ lastOp' = Op("boxPress", NoArg, NoArg, NoArg, "", "selecting", FALSE)
    /\ UNCHANGED <<graphVars, historyVars, counterVars, connectVars, selectedComponents,
                   fileVars, clipboard, dragState, editing>>

\* mousemove on the svg, to p: the listener setupConnectionDrawing registered last
\* (it replaced setupSelectionBox's) redraws the temporary connection line
MouseMove(p) ==
    /\ pointer' = p
    /\ lastOp' = Op("mousemove", NoArg, NoArg, NoArg, "", "moved", FALSE)
    /\ UNCHANGED <<graphVars, historyVars, counterVars, connectVars, selectedComponents,
                   fileVars, clipboard, dragState, isSelecting, selectionStart, editing>>

-----------------------------------------------------------------------------
(* The observer of runs of committed mutations followed by undos and redos *)

(* Object identity.  Every component object is named by the number of its
   allocation; refs tells which object stands at each place of the live array,
   of each snapshot on the two stacks and of the clipboard.  A handler that
   mutates a component in place keeps its object; JSON.parse(JSON.stringify(x))
   allocates new ones. *)

\* a copy that stores the very objects it was given
byReference(objects, next) == objects

\* JSON.parse(JSON.stringify(objects)): as many objects, allocated after next
jsonCopy(objects, next) == Array([i \in 1..Len(objects) |-> next + i])

\* The places of `after` whose id no component of `before` has: objects made by
\* the handler itself
madeAt(before, after) == {k \in 1..Len(after) : ~HasComponent(before, after[k].id)}

\* The live objects after a handler that edits the graph in place: a component
\* that was there keeps its object, a new one is allocated
liveInPlace(before, after, live, next) ==
    Array([k \in 1..Len(after) |->
        IF k \in madeAt(before, after)
        THEN next + Cardinality({m \in madeAt(before, after) : m <= k})
        ELSE live[CHOOSE i \in 1..Len(before) : before[i].id = after[k].id]])

\* StateManager.saveState on the object stacks
savedRefs(r) ==
    [r EXCEPT !.undo = IF Len(r.undo) + 1 > maxUndoSteps
                       THEN Tail(Append(r.undo, jsonCopy(r.live, r.next)))
                       ELSE Append(r.undo, jsonCopy(r.live, r.next)),
              !.redo = <<>>,
              !.next = r.next + Len(r.live)]

\* loadState: the live graph becomes a copy of the state it is given
loadedRefs(r, state) ==
    [r EXCEPT !.live = jsonCopy(state, r.next), !.next = r.next + Len(state)]

\* The objects after the handler the step ran
refsAfter ==
    CASE lastOp'.op = "undo" /\ lastOp'.result = "restored" ->
            loadedRefs([refs EXCEPT !.redo = Append(@, jsonCopy(refs.live, refs.next)),
                                    !.undo = Front(@),
                                    !.next = @ + Len(refs.live)],
                       Last(refs.undo))
      [] lastOp'.op = "redo" /\ lastOp'.result = "restored" ->
            loadedRefs([refs EXCEPT !.undo = Append(@, jsonCopy(refs.live, refs.next)),
                                    !.redo = Front(@),
                                    !.next = @ + Len(refs.live)],
                       Last(refs.redo))
      [] lastOp'.op = "copy" ->
            [refs EXCEPT !.clip = jsonCopy(SelectSeq(refs.live, LAMBDA o :
                                        \E i \in 1..Len(components) :
                                            /\ refs.live[i] = o
                                            /\ components[i].id \in selectedComponents),
                                      refs.next),
                         !.next = @ + Len(clipboard')]
      [] lastOp'.op \in {"createComponent", "deleteComponent", "addPort", "removePort",
                         "dragStart", "drag", "dragEnd", "autoLayout"} ->
            IF lastOp'.saved
            THEN savedRefs([refs EXCEPT
                    !.live = liveInPlace(components, components', refs.live, refs.next),
                    !.next = @ + Cardinality(madeAt(components, components'))])
            ELSE [refs EXCEPT
                    !.live = liveInPlace(components, components', refs.live, refs.next),
                    !.next = @ + Cardinality(madeAt(components, components'))]
      [] OTHER -> refs

Observe ==
    /\ seenIds' = seenIds \cup {components'[i].id : i \in 1..Len(components')}
    /\ LET before == Graph
           after == Snapshot(components', connections')
       IN  tracker' =
           CASE lastOp'.op = "undo" ->
                   IF tracker.phase \in {"mutating", "undoing"}
                   THEN [tracker EXCEPT !.phase = "undoing", !.nUndo = @ + 1]
                   ELSE Idle
             [] lastOp'.op = "redo" ->
                   IF tracker.phase \in {"undoing", "redoing"}
                   THEN [tracker EXCEPT !.phase = "redoing", !.nRedo = @ + 1]
                   ELSE Idle
             [] lastOp'.op \notin {"undo", "redo"} /\ lastOp'.saved ->
                   IF tracker.phase = "mutating"
                   THEN [tracker EXCEPT !.graphs = Append(@, after)]
                   ELSE [phase |-> "mutating", graphs |-> <<before, after>>,
                         nUndo |-> 0, nRedo |-> 0]
             [] OTHER -> IF after = before THEN tracker ELSE Idle

\* What the observers record of a step; the objects are followed in SpecAlias only
Track == Observe /\ UNCHANGED refs

\* A handler runs to completion unless an earlier one never returned
Tick(bound) ==
    /\ steps < bound
    /\ lastOp.result # "hang"
    /\ steps' = steps + 1

-----------------------------------------------------------------------------
(* Create, connect, delete, undo, redo and presets, from the empty canvas *)

Core(A) == Tick(MaxCoreSteps) /\ A /\ Track

NextCore ==
    \/ \E p \in Positions, type \in ComponentTypes :
            componentIdCounter <= MaxComponentId /\ Core(CreateComponent(p[1], p[2], type))
    \/ \E port \in RenderedPorts(TargetComponents, "outputs") : Core(StartConnection(port))
    \/ \E port \in RenderedPorts(TargetComponents, "inputs") : Core(FinishConnection(port))
    \/ Core(MouseUp)
    \/ \E id \in TargetIds : Core(DeleteComponent(id))
    \/ Core(Undo)
    \/ Core(Redo)
    \/ \E key \in PresetKeys :
            componentIdCounter <= MaxComponentId /\ Core(CreatePresetBlueprint(key))

SpecCore == Init /\ [][NextCore]_vars

-----------------------------------------------------------------------------
(* A long editing session on one component at a time: QuietSteps edits before the
   first undo, then edits, undos and redos in any order *)

History(A) == Tick(MaxHistorySteps) /\ A /\ Track

NextHistory ==
    \/ Len(components) = 0 /\ History(CreateComponent(100, 100, "function"))
    \/ \E id \in TargetIds : History(DeleteComponent(id))
    \/ steps >= QuietSteps /\ History(Undo)
    \/ steps >= QuietSteps /\ History(Redo)

SpecHistory == Init /\ [][NextHistory]_vars

-----------------------------------------------------------------------------
(* Files and payloads: load, import, edit, connect, undo, redo *)

Files(A) == Tick(MaxFileSteps) /\ A /\ Track

NextFiles ==
    \/ componentIdCounter <= MaxComponentId /\ Files(CreateComponent(100, 100, "function"))
    \/ \E port \in RenderedPorts(TargetComponents, "outputs") : Files(StartConnection(port))
    \/ \E port \in RenderedPorts(TargetComponents, "inputs") : Files(FinishConnection(port))
    \/ \E id \in TargetIds : Files(DeleteComponent(id))
    \/ \E now \in {"t1"} : Files(SaveToJson(now))
    \/ \E doc \in FileNames : Files(StartLoadFromJson(doc))
    \/ \E k \in 1..Len(pendingReads) : Files(FinishLoadFromJson(k))
    \/ \E doc \in DocNames : Files(LoadBlueprint(doc))
    \/ Files(Undo)
    \/ Files(Redo)

SpecFiles == Init /\ [][NextFiles]_vars

-----------------------------------------------------------------------------
(* Building a diagram: presets, prompts, payloads and connections *)

Build(A) == Tick(MaxBuildSteps) /\ A /\ Track

NextBuild ==
    \/ \E port \in RenderedPorts(TargetComponents, "outputs") : Build(StartConnection(port))
    \/ \E port \in RenderedPorts(TargetComponents, "inputs") : Build(FinishConnection(port))
    \/ \E key \in PresetKeys :
            componentIdCounter <= MaxBuildId /\ Build(CreatePresetBlueprint(key))
    \/ \E prompt \in Prompts :
            componentIdCounter <= MaxBuildId /\ Build(CreateFromPrompt(prompt))
    \/ \E doc \in {"plain", "unwired"} : Build(LoadBlueprint(doc))

SpecBuild == Init /\ [][NextBuild]_vars

-----------------------------------------------------------------------------
(* Connecting with the mouse, event by event: a press on a port circle is followed
   by the release of the button, which bubbles to the svg's mouseup listener *)

\* the button went down on a port circle and is still down
ButtonHeld == lastOp.op \in {"startConnection", "finishConnection"}

Pointer(A) == Tick(MaxPointerSteps) /\ A /\ Track

NextPointer ==
    \/ \E p \in Positions, type \in ComponentTypes :
            /\ ~ButtonHeld
            /\ componentIdCounter <= MaxComponentId
            /\ Pointer(CreateComponent(p[1], p[2], type))
    \/ \E doc \in {"plain"} : ~ButtonHeld /\ Pointer(LoadBlueprint(doc))
    \/ \E port \in RenderedPorts(TargetComponents, "outputs") :
            ~ButtonHeld /\ Pointer(StartConnection(port))
    \/ \E port \in RenderedPorts(TargetComponents, "inputs") :
            ~ButtonHeld /\ Pointer(FinishConnection(port))
    \/ ButtonHeld /\ Pointer(MouseUp)

SpecPointer == Init /\ [][NextPointer]_vars

-----------------------------------------------------------------------------
(* Editing ports: the context menu's add-port entries and the double click on a
   port label, on created and preset components, with undo and redo *)

Ports(A) == Tick(MaxPortSteps) /\ A /\ Track

NextPorts ==
    \/ componentIdCounter <= MaxComponentId /\ Ports(CreateComponent(100, 100, "function"))
    \/ \E key \in PresetKeys :
            componentIdCounter <= MaxComponentId /\ Ports(CreatePresetBlueprint(key))
    \/ \E id \in TargetIds, portType \in PortTypes : Ports(AddPort(id, portType))
    \/ \E id \in TargetIds, portType \in PortTypes :
            \E j \in 1..Len(ComponentById(components, id)[portType]) :
                Ports(RemovePort(id, portType, j))
    \/ Ports(Undo)
    \/ Ports(Redo)

SpecPorts == Init /\ [][NextPorts]_vars

-----------------------------------------------------------------------------
(* Editing components by id: the context menu entries and the public methods, which
   a caller can also hand the id of a component that is no longer there *)

LiveIds == {components[i].id : i \in 1..Len(components)}

\* the ids a caller can name: the components within reach and those seen earlier
NamedIds == TargetIds \cup (seenIds \ LiveIds)

Edit(A) == Tick(MaxEditSteps) /\ A /\ Track

NextEdit ==
    \/ componentIdCounter <= MaxEditId /\ Edit(CreateComponent(100, 100, "function"))
    \/ \E key \in PresetKeys :
            componentIdCounter <= MaxEditId /\ Edit(CreatePresetBlueprint(key))
    \/ \E prompt \in {Prompt({"sensor"})} :
            componentIdCounter <= MaxEditId /\ Edit(CreateFromPrompt(prompt))
    \/ \E doc \in {"plain", "saved"} : Edit(LoadBlueprint(doc))
    \/ \E id \in NamedIds : Edit(DeleteComponent(id))
    \/ \E id \in NamedIds, portType \in PortTypes : Edit(AddPort(id, portType))
    \/ \E id \in NamedIds : Edit(DuplicateComponent(id))
    \/ \E id \in NamedIds : Edit(StartRenaming(id))
    \/ Edit(SelectAll)
    \/ Edit(Undo)
    \/ Edit(Redo)

SpecEdit == Init /\ [][NextEdit]_vars

-----------------------------------------------------------------------------
(* The clipboard: select all, copy, paste, with edits in between *)

Clipboard(A) == Tick(MaxClipboardSteps) /\ A /\ Track

NextClipboard ==
    \/ componentIdCounter <= MaxComponentId
            /\ Clipboard(CreateComponent(100, 100, "function"))
    \/ \E key \in {"ecommerce"} :
            componentIdCounter <= MaxComponentId /\ Clipboard(CreatePresetBlueprint(key))
    \/ \E id \in TargetIds : Clipboard(DeleteComponent(id))
    \/ Clipboard(SelectAll)
    \/ Clipboard(CopySelected)
    \/ Clipboard(Paste)
    \/ Clipboard(Undo)

SpecClipboard == Init /\ [][NextClipboard]_vars

-----------------------------------------------------------------------------
(* Dragging: press on a component, moves, release; the keyboard works while the
   button is down *)

Dragging == dragState.dragging

\* where components are dropped and where the pointer goes
DragPositions == {<<100, 100>>, <<400, 100>>}
PointerPositions == {<<110, 120>>, <<150, 90>>}

Drag(A) == Tick(MaxDragSteps) /\ A /\ Track

NextDrag ==
    \/ \E p \in DragPositions :
            /\ ~Dragging
            /\ componentIdCounter <= MaxTargets
            /\ \A i \in 1..Len(components) : <<components[i].x, components[i].y>> # p
            /\ Drag(CreateComponent(p[1], p[2], "function"))
    \/ Drag(SelectAll)
    \/ \E id \in TargetIds, p \in PointerPositions : ~Dragging /\ Drag(DragStart(id, p))
    \/ \E p \in PointerPositions : Dragging /\ p # pointer /\ Drag(DragMove(p))
    \/ Dragging /\ Drag(DragEnd)
    \/ ~Dragging /\ Drag(Undo)

SpecDrag == Init /\ [][NextDrag]_vars

-----------------------------------------------------------------------------
(* The selection box: press on the background, moves, release *)

\* the button went down on the background and is still down
BoxHeld == lastOp.op \in {"boxPress", "mousemove"}

BoxPoints == {<<50, 50>>, <<300, 300>>, <<600, 50>>}

Select(A) == Tick(MaxSelectSteps) /\ A /\ Track

NextSelect ==
    \/ \E p \in DragPositions :
            /\ ~BoxHeld
            /\ componentIdCounter <= MaxTargets
            /\ \A i \in 1..Len(components) : <<components[i].x, components[i].y>> # p
            /\ Select(CreateComponent(p[1], p[2], "function"))
    \/ \E p \in BoxPoints : ~BoxHeld /\ Select(BoxPress(p))
    \/ \E p \in BoxPoints : BoxHeld /\ p # pointer /\ Select(MouseMove(p))
    \/ BoxHeld /\ Select(MouseUp)
    \/ ~BoxHeld /\ Select(SelectAll)
    \/ \E id \in TargetIds : ~BoxHeld /\ Select(DeleteComponent(id))

SpecSelect == Init /\ [][NextSelect]_vars

-----------------------------------------------------------------------------
(* Layout: a blueprint is loaded on the canvas that never held a graph, then laid
   out, undone and laid out again *)

Layout(A) == Tick(MaxLayoutSteps) /\ A /\ Track

NextLayout ==
    \/ \E order \in GraphOrders, chosen \in SUBSET Range(GraphEdges) :
            components = <<>> /\ redoStack = <<>> /\ Layout(LoadGraph(order, chosen))
    \/ Layout(AutoLayout)
    \/ components # <<>> /\ Layout(Undo)

SpecLayout == Init /\ [][NextLayout]_vars

-----------------------------------------------------------------------------
(* Connecting: startConnection, finishConnection and cancelConnection in any
   order, on created components and on loaded blueprints with typed ports *)

Connect(A) == Tick(MaxConnectSteps) /\ A /\ Track

NextConnect ==
    \/ componentIdCounter <= MaxTargets /\ Connect(CreateComponent(100, 100, "class"))
    \/ \E doc \in {"plain", "typed"} : components = <<>> /\ Connect(LoadBlueprint(doc))
    \/ \E port \in RenderedPorts(TargetComponents, "outputs") : Connect(StartConnection(port))
    \/ \E port \in RenderedPorts(TargetComponents, "inputs") : Connect(FinishConnection(port))
    \/ Connect(MouseUp)

SpecConnect == Init /\ [][NextConnect]_vars

-----------------------------------------------------------------------------
(* Stored copies: create, edit in place (drag, add a port), delete, copy, undo
   and redo, with the objects followed *)

Alias(A) == Tick(MaxAliasSteps) /\ A /\ Observe /\ refs' = refsAfter

NextAlias ==
    \/ \E p \in DragPositions :
            /\ ~Dragging
            /\ componentIdCounter <= MaxTargets
            /\ \A i \in 1..Len(components) : <<components[i].x, components[i].y>> # p
            /\ Alias(CreateComponent(p[1], p[2], "function"))
    \/ \E id \in TargetIds, p \in {<<110, 120>>} : ~Dragging /\ Alias(DragStart(id, p))
    \/ \E p \in {<<150, 90>>} : Dragging /\ p # pointer /\ Alias(DragMove(p))
    \/ Dragging /\ Alias(DragEnd)
    \/ \E id \in TargetIds : ~Dragging /\ Alias(AddPort(id, "inputs"))
    \/ \E id \in TargetIds : ~Dragging /\ Alias(DeleteComponent(id))
    \/ ~Dragging /\ selectedComponents = {} /\ Alias(SelectAll)
    \/ ~Dragging /\ selectedComponents # {} /\ Alias(CopySelected)
    \/ ~Dragging /\ Alias(Undo)
    \/ ~Dragging /\ Alias(Redo)

SpecAlias == Init /\ [][NextAlias]_vars

-----------------------------------------------------------------------------
(* Keys and the inline name editor: select, start a connection, rename, Enter,
   blur and Escape *)

\* what is typed into the editor: a name, the same with outer blanks, blanks,
\* nothing, and the title new function components carry
TypedNames == {<<"A", "p", "i">>, <<" ", "A", "p", "i", " ">>, <<" ", " ">>, <<>>,
               <<"N", "e", "w", " ", "f", "u", "n", "c", "t", "i", "o", "n">>}

Keys(A) == Tick(MaxKeySteps) /\ A /\ Track

NextKeys ==
    \/ /\ ~editing.active
       /\ componentIdCounter <= MaxTargets
       /\ Keys(CreateComponent(100, 100, "function"))
    \/ ~editing.active /\ selectedComponents = {} /\ Keys(SelectAll)
    \/ \E port \in RenderedPorts(TargetComponents, "outputs") :
            ~editing.active /\ ~isCreatingConnection /\ Keys(StartConnection(port))
    \/ isCreatingConnection /\ Keys(MouseUp)
    \/ \E id \in TargetIds : ~editing.active /\ Keys(StartRenaming(id))
    \/ \E chars \in TypedNames : ~editing.typed /\ Keys(TypeName(chars))
    \/ \E blurFires \in BOOLEAN : Keys(EnterName(blurFires))
    \/ Keys(BlurName)
    \/ \E blurFires \in BOOLEAN : Keys(Escape(blurFires))

SpecKeys == Init /\ [][NextKeys]_vars

-----------------------------------------------------------------------------
(* Interaction modes: box selection, dragging, connecting and renaming, one pointer
   gesture after the other; a press elsewhere first takes the focus from the editor *)

\* a mouse button is down
Pressed == Dragging \/ lastOp.op \in {"boxPress", "startConnection"}

Modes(A) == Tick(MaxModeSteps) /\ A /\ Track

NextModes ==
    \/ /\ ~Pressed /\ ~editing.active
       /\ componentIdCounter <= MaxTargets
       /\ Modes(CreateComponent(100, 100, "function"))
    \/ \E p \in BoxPoints : ~Pressed /\ ~editing.active /\ Modes(BoxPress(p))
    \/ \E id \in TargetIds, p \in PointerPositions :
            ~Pressed /\ ~editing.active /\ Modes(DragStart(id, p))
    \/ Dragging /\ Modes(DragEnd)
    \/ \E port \in RenderedPorts(TargetComponents, "outputs") :
            ~Pressed /\ ~editing.active /\ Modes(StartConnection(port))
    \/ Pressed /\ ~Dragging /\ Modes(MouseUp)
    \/ \E id \in TargetIds : ~Pressed /\ ~editing.active /\ Modes(StartRenaming(id))
    \/ ~Pressed /\ Modes(BlurName)

SpecModes == Init /\ [][NextModes]_vars

-----------------------------------------------------------------------------
(* Presets over whatever the diagram holds: created and loaded components, then
   createPresetBlueprint with preset keys and other keys *)

OtherKeys == {"unknown"} \cup InheritedKeys

Presets(A) == Tick(MaxPresetSteps) /\ A /\ Track

NextPresets ==
    \/ componentIdCounter <= MaxTargets /\ Presets(CreateComponent(100, 100, "class"))
    \/ \E doc \in {"plain"} : components = <<>> /\ Presets(LoadBlueprint(doc))
    \/ \E key \in PresetKeys \cup OtherKeys :
            componentIdCounter <= MaxBuildId /\ Presets(CreatePresetBlueprint(key))
    \/ \E id \in TargetIds : Presets(DeleteComponent(id))

SpecPresets == Init /\ [][NextPresets]_vars

-----------------------------------------------------------------------------
(* Deleting from diagrams of ten or more components: prompts merged into what an
   earlier preset or prompt left, then deleteComponent on any live component *)

MergedPrompts == {Prompt({}), Prompt({"sensor"}), Prompt({"pipeline"})}

Delete(A) == Tick(MaxDeleteSteps) /\ A /\ Track

NextDelete ==
    \/ components = <<>> /\ Delete(CreatePresetBlueprint("realtime_analytics_gateway"))
    \/ \E prompt \in MergedPrompts :
            componentIdCounter <= MaxDeleteId /\ Delete(CreateFromPrompt(prompt))
    \/ \E i \in 1..Len(components) : Delete(DeleteComponent(components[i].id))

SpecDelete == Init /\ [][NextDelete]_vars

-----------------------------------------------------------------------------
(* The selection across everything that changes the diagram: creating, selecting,
   pressing on a component, deleting, undo, redo, a loaded blueprint, a preset *)

Selection(A) == Tick(MaxSelectionSteps) /\ A /\ Track

NextSelection ==
    \/ ~Dragging /\ componentIdCounter <= MaxTargets
            /\ Selection(CreateComponent(100, 100, "function"))
    \/ ~Dragging /\ Selection(SelectAll)
    \/ \E id \in TargetIds, p \in {<<110, 120>>} : ~Dragging /\ Selection(DragStart(id, p))
    \/ Dragging /\ Selection(DragEnd)
    \/ \E id \in TargetIds : ~Dragging /\ Selection(DeleteComponent(id))
    \/ ~Dragging /\ Selection(Undo)
    \/ ~Dragging /\ Selection(Redo)
    \/ ~Dragging /\ Selection(LoadBlueprint("plain"))
    \/ ~Dragging /\ componentIdCounter <= MaxBuildId
            /\ Selection(CreatePresetBlueprint("realtime_analytics_gateway"))

SpecSelection == Init /\ [][NextSelection]_vars

-----------------------------------------------------------------------------
(* Undo followed by redo over edits of every kind: created and deleted components,
   added ports, and names typed into the inline editor *)

\* a name longer than the box of a new component is wide
LongNames ==
    {<<"P", "a", "y", "m", "e", "n", "t", " ", "g", "a", "t", "e", "w", "a", "y", " ",
      "f", "o", "r", " ", "a", "l", "l", " ", "o", "r", "d", "e", "r", "s", " ", "a",
      "n", "d", " ", "r", "e", "f", "u", "n", "d", "s", " ", "i", "n", " ", "E", "u",
      "r", "o", "p", "e">>}

Redoing(A) == Tick(MaxRedoSteps) /\ A /\ Track

NextRedo ==
    \/ ~editing.active /\ componentIdCounter <= MaxTargets
            /\ Redoing(CreateComponent(100, 100, "function"))
    \/ \E id \in TargetIds : ~editing.active /\ Redoing(DeleteComponent(id))
    \/ \E id \in TargetIds : ~editing.active /\ Redoing(AddPort(id, "inputs"))
    \/ \E id \in TargetIds : ~editing.active /\ Redoing(StartRenaming(id))
    \/ \E chars \in LongNames \cup {<<"A", "p", "i">>} :
            ~editing.typed /\ Redoing(TypeName(chars))
    \/ Redoing(BlurName)
    \/ ~editing.active /\ Redoing(Undo)
    \/ ~editing.active /\ Redoing(Redo)

SpecRedo == Init /\ [][NextRedo]_vars

-----------------------------------------------------------------------------
(* Arranging what was edited: created and loaded components, names typed into the
   inline editor, then autoLayout *)

Arrange(A) == Tick(MaxArrangeSteps) /\ A /\ Track

NextArrange ==
    \/ ~editing.active /\ componentIdCounter <= MaxTargets
            /\ Arrange(CreateComponent(100, 100, "function"))
    \/ ~editing.active /\ components = <<>> /\ Arrange(LoadBlueprint("plain"))
    \/ \E id \in TargetIds : ~editing.active /\ Arrange(StartRenaming(id))
    \/ \E chars \in LongNames \cup {<<"A", "p", "i">>} :
            ~editing.typed /\ Arrange(TypeName(chars))
    \/ Arrange(BlurName)
    \/ ~editing.active /\ Arrange(AutoLayout)

SpecArrange == Init /\ [][NextArrange]_vars

-----------------------------------------------------------------------------
(* Properties *)

\* C1: in every state reached by createComponent, connection start / finish,
\* deleteComponent, undo, redo and the presets, every connection's from is a port
\* among the outputs of a live component and its to a port among the inputs of one
C1_EndpointsResolve ==
    \A i \in 1..Len(connections) :
        /\ connections[i].from \in RenderedPorts(components, "outputs")
        /\ connections[i].to \in RenderedPorts(components, "inputs")

\* a deleteComponent has just removed connections and left others
C1_CascadeHappened ==
    /\ lastOp.op = "deleteComponent"
    /\ connections # <<>>
    /\ Len(undoStack) >= 2
    /\ Len(undoStack[Len(undoStack) - 1].connections) > Len(connections)

\* C2 (as the specification states it): after a run of committed mutations, k undo
\* calls (k at least 1, at most the length of the run) leave the live graph equal to
\* the graph before the last k mutations
C2_UndoRestores ==
    (tracker.phase = "undoing" /\ tracker.nUndo <= Len(tracker.graphs) - 1)
        => Graph = tracker.graphs[Len(tracker.graphs) - tracker.nUndo]

C4_SaveEmptiesRedo ==
    /\ [](lastOp.saved => redoStack = <<>>)
    /\ [][(lastOp.saved /\ lastOp'.op = "redo")
            => (lastOp'.result = "null" /\ UNCHANGED <<graphVars, historyVars>>)]_vars

\* a createComponent after create and undo: the save found a non-empty redo stack
C4_SavedAfterUndo ==
    /\ lastOp.op = "createComponent"
    /\ lastOp.saved
    /\ componentIdCounter = 3
    /\ Len(undoStack) = 2
    /\ redoStack = <<>>

\* C5: the undo stack never holds more than maxUndoSteps snapshots, whatever the
\* order of saves, undos and redos, and a save onto a full stack drops the oldest
\* snapshot and no other
C5_UndoStackCapped ==
    /\ [](Len(undoStack) <= maxUndoSteps)
    /\ [][(lastOp'.saved /\ Len(undoStack) = maxUndoSteps)
            => (/\ Len(undoStack') = maxUndoSteps
                /\ Front(undoStack') = Tail(undoStack)
                /\ Last(undoStack') = Snapshot(components', connections'))]_vars

\* a save has evicted the snapshot of the empty canvas from a full stack
C5_Evicted ==
    /\ lastOp.saved
    /\ steps > maxUndoSteps
    /\ Len(undoStack) = maxUndoSteps
    /\ undoStack[1] # Snapshot(<<>>, <<>>)

\* C6: undo with an empty undo stack, and redo with an empty redo stack, return
\* nothing and leave components, connections and both stacks as they were
C6_EmptyStackNoOp ==
    /\ [][(lastOp'.op = "undo" /\ undoStack = <<>>)
            => (lastOp'.result = "null" /\ UNCHANGED <<graphVars, historyVars>>)]_vars
    /\ [][(lastOp'.op = "redo" /\ redoStack = <<>>)
            => (lastOp'.result = "null" /\ UNCHANGED <<graphVars, historyVars>>)]_vars

\* an undo found the undo stack empty while the redo stack was not
C6_UndoOnEmpty ==
    /\ lastOp.op = "undo"
    /\ lastOp.result = "null"
    /\ undoStack = <<>>
    /\ redoStack # <<>>

\* C7: reading a file whose document lacks the components key or the connections
\* key ends with the format error and leaves components, connections and both
\* stacks as they were
C7_BadImportLeavesState ==
    [][(lastOp'.op = "onload" /\ lastOp'.doc \in {"noConnections", "noComponents"})
        => (lastOp'.result = FormatError /\ UNCHANGED <<graphVars, historyVars>>)]_vars

\* a document without connections was read over a loaded graph
C7_RejectedOverGraph ==
    /\ lastOp.op = "onload"
    /\ lastOp.doc = "noConnections"
    /\ lastOp.result = FormatError
    /\ connections # <<>>
    /\ Len(undoStack) >= 2

\* C8: importing the export of the live graph succeeds and returns its components
\* and connections, whatever the timestamp; so does importing the file just saved
C8_RoundTrip ==
    /\ importFromJson(exportToJson(components, connections, "t2")).success
    /\ importFromJson(exportToJson(components, connections, "t2")).components = components
    /\ importFromJson(exportToJson(components, connections, "t2")).connections = connections
    /\ lastOp.op = "saveToJson" =>
        /\ importFromJson(download).success
        /\ importFromJson(download).components = components
        /\ importFromJson(download).connections = connections

\* a graph with components, ports and a connection has just been saved to a file
C8_SavedGraph ==
    /\ lastOp.op = "saveToJson"
    /\ connections # <<>>
    /\ \E i \in 1..Len(components) : Len(components[i].inputs) > 0

\* C9: finishing a connection whose (from, to) pair is already among the
\* connections changes neither the graph nor the stacks, and no state reached by
\* connecting, presets, prompts and payloads holds the same pair twice
C9_NoDuplicates ==
    /\ [](\A i, j \in 1..Len(connections) : connections[i] = connections[j] => i = j)
    /\ [][(/\ lastOp'.op = "finishConnection"
           /\ isCreatingConnection
           /\ \E i \in 1..Len(connections) :
                connections[i] = [from |-> startPort, to |-> lastOp'.arg])
            => UNCHANGED <<graphVars, historyVars>>]_vars

\* a connection already among the connections was attempted again and turned down
C9_SecondAttemptRejected ==
    /\ lastOp.op = "finishConnection"
    /\ lastOp.result = "duplicate"
    /\ Len(undoStack) >= 3
    /\ connections = <<[from |-> lastOp.from, to |-> lastOp.to]>>
    /\ Last(undoStack).connections = connections
    /\ undoStack[Len(undoStack) - 1].connections = <<>>

\* C10 (as the specification states it): with a connection started on the output
\* port out1 of a component A, finishing on the input port in1 of another component
\* B, the pair not being among the connections, appends exactly that pair and
\* pushes exactly one snapshot
C10_ConnectionAccepted ==
    [][(/\ lastOp'.op = "finishConnection"
        /\ isCreatingConnection
        /\ \E a, b \in 1..Len(components) :
            /\ a # b
            /\ startPort = PortKey(components[a].id, OutPortId)
            /\ lastOp'.arg = PortKey(components[b].id, InPortId)
        /\ \A i \in 1..Len(connections) :
            connections[i] # [from |-> startPort, to |-> lastOp'.arg])
        => (/\ connections' = Append(connections, [from |-> startPort, to |-> lastOp'.arg])
            /\ components' = components
            /\ undoStack' = Append(undoStack, Snapshot(components', connections')))]_vars

\* C11 (as the specification states it): the release of the button that follows a
\* press on an output port leaves the connection that press started pending, so
\* that the next press on an input port finishes it
C11_ClickKeepsPending ==
    [][(lastOp.op = "startConnection" /\ lastOp'.op = "mouseup")
        => (isCreatingConnection' /\ startPort' = lastOp.arg)]_vars

\* C12: a finishConnection whose from is no output port of a live component, or
\* whose to is no input port of one, is refused, and it leaves the components, the
\* connections and both stacks as they were
C12_UnresolvedRefused ==
    [][(/\ lastOp'.op = "finishConnection"
        /\ isCreatingConnection
        /\ startPort # NoString
        /\ \/ startPort \notin RenderedPorts(components, "outputs")
           \/ lastOp'.arg \notin RenderedPorts(components, "inputs"))
        => (/\ lastOp'.result \in {"invalid", "duplicate"}
            /\ UNCHANGED <<graphVars, historyVars>>)]_vars

\* a connection started on a port of a component deleted since was finished on
\* a live input port and turned down
C12_StaleStartRefused ==
    /\ lastOp.op = "finishConnection"
    /\ lastOp.result = "invalid"
    /\ lastOp.from # NoArg
    /\ lastOp.from \notin RenderedPorts(components, "outputs")
    /\ lastOp.to \in RenderedPorts(components, "inputs")

\* the ports of both directions of the component an operation named
PortsOf(componentId) ==
    ComponentById(components, componentId).inputs
        \o ComponentById(components, componentId).outputs

\* C13 (as the specification states it): after any sequence of addPort and port
\* removals, every component has at least one input port and at least one output
\* port
C13_OnePortOfEachKind ==
    \A i \in 1..Len(components) :
        Len(components[i].inputs) >= 1 /\ Len(components[i].outputs) >= 1

\* C14 (as the specification states it): after a port removal, neither the
\* connections nor the snapshot the removal pushed hold a connection from or to
\* the removed port
C14_RemovalCascades ==
    (lastOp.op = "removePort" /\ lastOp.result = "removed")
        => \A conn \in Range(connections) \cup Range(Last(undoStack).connections) :
                /\ conn.from # PortKey(lastOp.arg, lastOp.to)
                /\ conn.to # PortKey(lastOp.arg, lastOp.to)

\* C15: a created function component has the one input port in1, the one output
\* port out1 and height 100; addPort on a direction holding k ports appends last a
\* port named input(k+1) / output(k+1) of type any and changes no other port; on
\* the inputs of a function component just created the port is input2 and the
\* height grows
C15_AddPortAppends ==
    /\ []((lastOp.op = "createComponent" /\ Last(components).type = "function")
            => /\ Len(Last(components).inputs) = 1
               /\ Last(components).inputs[1].id = <<"i", "n", "1">>
               /\ Len(Last(components).outputs) = 1
               /\ Last(components).outputs[1].id = <<"o", "u", "t", "1">>
               /\ Last(components).height = 100)
    /\ [][(lastOp'.op = "addPort" /\ lastOp'.result = "added")
            => LET before == ComponentById(components, lastOp'.arg)
                   after == ComponentById(components', lastOp'.arg)
                   dir == lastOp'.doc
                   other == IF dir = "inputs" THEN "outputs" ELSE "inputs"
                   k == Len(before[dir])
               IN  /\ Len(after[dir]) = k + 1
                   /\ SubSeq(after[dir], 1, k) = before[dir]
                   /\ after[other] = before[other]
                   /\ after[dir][k + 1].name =
                        (IF dir = "inputs" THEN "input" ELSE "output") \o ToString(k + 1)
                   /\ after[dir][k + 1].type = "any"
                   /\ after[dir][k + 1].id = lastOp'.to
                   /\ (lastOp.op = "createComponent" /\ lastOp.arg = lastOp'.arg
                            /\ before.type = "function" /\ dir = "inputs")
                        => /\ after.inputs[2].name = "input2"
                           /\ after.height > before.height]_vars

\* addPort has just put input2 under input1 on a function component, now 130 high
C15_SecondInputAdded ==
    /\ lastOp.op = "addPort"
    /\ lastOp.result = "added"
    /\ lastOp.doc = "inputs"
    /\ LET c == ComponentById(components, lastOp.arg)
       IN  /\ c.type = "function"
           /\ Len(c.inputs) = 2
           /\ c.inputs[1].name = "input1"
           /\ c.inputs[2].name = "input2"
           /\ c.height = 130

\* C17 (as the specification states it): the id addPort gives the new port is the
\* id of no other port of the same component
C17_PortIdFresh ==
    (lastOp.op = "addPort" /\ lastOp.result = "added")
        => Cardinality({j \in 1..Len(PortsOf(lastOp.arg)) :
                            PortsOf(lastOp.arg)[j].id = lastOp.to}) = 1

\* C16: the ids createComponent, the presets, the prompts and duplicateComponent
\* give new components are ids no component of the live graph has or ever had;
\* after a bulk load (loadBlueprint, file import, undo, redo) the component id
\* counter is above the largest numeric id loaded; the counter never decreases
C16_IdsFresh ==
    /\ [][lastOp'.op \in {"createComponent", "createPresetBlueprint", "createFromPrompt",
                           "duplicateComponent"}
            => /\ \A i \in 1..Len(components') :
                    components'[i].id \in LiveIds \/ components'[i].id \notin seenIds
               /\ lastOp'.op = "createPresetBlueprint"
                    => \A i \in 1..Len(components') : components'[i].id \notin seenIds
               /\ \A i, j \in 1..Len(components') :
                    components'[i].id = components'[j].id => i = j]_vars
    /\ [][lastOp'.result \in {"loaded", "restored"}
            => componentIdCounter' > MaxIdNumber(components')]_vars
    /\ [][componentIdCounter' >= componentIdCounter]_vars

\* a component was created after a graph with numbered ids had been loaded and one
\* of its components deleted
C16_CreatedAfterLoadAndDelete ==
    /\ lastOp.op = "createComponent"
    /\ seenIds \ LiveIds # {}
    /\ ComponentIdOf(7) \in seenIds
    /\ lastOp.arg = ComponentIdOf(8)

\* C18: deleteComponent on the id of a live component leaves no connection from or
\* to a port of that component, removes the component and nothing else from the
\* components, takes the id out of the selection, and pushes one snapshot, of the
\* graph after the removals
C18_DeleteCascades ==
    [][(lastOp'.op = "deleteComponent" /\ HasComponent(components, lastOp'.arg))
        => (/\ \A i \in 1..Len(connections') :
                \A j \in 1..Len(PortsOf(lastOp'.arg)) :
                    /\ connections'[i].from # PortKey(lastOp'.arg, PortsOf(lastOp'.arg)[j].id)
                    /\ connections'[i].to # PortKey(lastOp'.arg, PortsOf(lastOp'.arg)[j].id)
            /\ Range(connections') \subseteq Range(connections)
            /\ components' = SelectSeq(components, LAMBDA c : c.id # lastOp'.arg)
            /\ selectedComponents' = selectedComponents \ {lastOp'.arg}
            /\ undoStack' = Append(undoStack, Snapshot(components', connections')))]_vars

\* a selected, wired component has just been deleted: its connections went with
\* it and the other components are still selected
C18_SelectedWiredDeleted ==
    /\ lastOp.op = "deleteComponent"
    /\ lastOp.result = "deleted"
    /\ selectedComponents # {}
    /\ lastOp.arg \notin selectedComponents
    /\ selectedComponents \cup {lastOp.arg} = seenIds
    /\ Len(undoStack) >= 2
    /\ Len(undoStack[Len(undoStack) - 1].connections) > Len(connections)

\* C19 (as the specification states it): deleteComponent, addPort,
\* duplicateComponent and startRenaming with an id that no live component has
\* leave the components, the connections and both stacks as they were
C19_MissingIdNoOp ==
    [][(/\ lastOp'.op \in {"deleteComponent", "addPort", "duplicateComponent",
                            "startRenaming"}
        /\ ~HasComponent(components, lastOp'.arg))
        => UNCHANGED <<graphVars, historyVars>>]_vars

\* C20 (as the specification states it): duplicateComponent on the id of a live
\* component appends one copy of it with a fresh id at (x + 50, y + 50), leaves
\* the connections alone and pushes one snapshot
C20_DuplicateAdds ==
    [][(lastOp'.op = "duplicateComponent" /\ HasComponent(components, lastOp'.arg))
        => (/\ Len(components') = Len(components) + 1
            /\ SubSeq(components', 1, Len(components)) = components
            /\ \E id \in {Last(components').id} :
                    /\ id \notin seenIds
                    /\ Last(components') =
                        [ComponentById(components, lastOp'.arg) EXCEPT
                            !.id = id, !.x = @ + 50, !.y = @ + 50]
            /\ connections' = connections
            /\ undoStack' = Append(undoStack, Snapshot(components', connections')))]_vars

\* C21 (as the specification states it): paste with k >= 1 clipboard entries
\* appends k components, the i-th a copy of the i-th entry with an id the graph
\* never held and at (x + 50, y + 50), makes the selection hold the k new ids,
\* leaves the connections alone and pushes one snapshot for the batch
C21_PasteAddsCopies ==
    [][(lastOp'.op = "paste" /\ clipboard # <<>>)
        => (/\ Len(components') = Len(components) + Len(clipboard)
            /\ SubSeq(components', 1, Len(components)) = components
            /\ \A i \in 1..Len(clipboard) :
                    \E id \in {components'[Len(components) + i].id} :
                        /\ id \notin seenIds
                        /\ id \in selectedComponents'
                        /\ components'[Len(components) + i] =
                                [clipboard[i] EXCEPT !.id = id, !.x = @ + 50, !.y = @ + 50]
            /\ connections' = connections
            /\ undoStack' = Append(undoStack, Snapshot(components', connections')))]_vars

\* C22 (as the specification states it): at every move of a drag each selected
\* component is at its position when the drag started plus the pointer's delta
\* since the press, so the offsets between selected components are those before
\* the drag, and no other component moves; the end of the drag pushes one snapshot
C22_RigidDrag ==
    /\ [][(lastOp'.op = "drag" /\ dragState.dragging)
            => \A i \in 1..Len(components) :
                IF components[i].id \in selectedComponents
                THEN /\ components'[i].x - components[i].x = pointer'[1] - pointer[1]
                     /\ components'[i].y - components[i].y = pointer'[2] - pointer[2]
                ELSE components'[i] = components[i]]_vars
    /\ [][lastOp'.op = "dragEnd"
            => undoStack' = Append(undoStack, Snapshot(components', connections'))]_vars

\* the components whose rectangle overlaps the box spanned by the press point and
\* the pointer
InBox ==
    {components[i].id : i \in {k \in 1..Len(components) :
        /\ components[k].x < Max2(selectionStart[1], pointer[1])
        /\ components[k].x + components[k].width > Min2(selectionStart[1], pointer[1])
        /\ components[k].y < Max2(selectionStart[2], pointer[2])
        /\ components[k].y + components[k].height > Min2(selectionStart[2], pointer[2])}}

\* C23 (as the specification states it): the release that ends a selection box
\* makes the selection the set of components whose rectangle overlaps the box, or,
\* with the modifier held, the union of the previous selection and that set
C23_BoxSelects ==
    [][(lastOp.op \in {"boxPress", "mousemove"} /\ isSelecting /\ lastOp'.op = "mouseup")
        => \/ selectedComponents' = InBox
           \/ selectedComponents' = selectedComponents \cup InBox]_vars

\* The component-level edges of the live graph, and what the claims about layout
\* speak of: predecessors, acyclicity, the longest path to a component, and the row
\* a laid-out component stands in
ComponentEdges ==
    {e \in LiveIds \X LiveIds :
        \E k \in 1..Len(connections) :
            parseCompId(connections[k].from) = e[1] /\ parseCompId(connections[k].to) = e[2]}
Predecessors(id) == {e[1] : e \in {d \in ComponentEdges : d[2] = id}}

RECURSIVE ReachedIn(_, _)
ReachedIn(from, hops) ==
    IF hops = 0 THEN from
    ELSE ReachedIn(from \cup {e[2] : e \in {d \in ComponentEdges : d[1] \in from}}, hops - 1)
Acyclic ==
    \A id \in LiveIds :
        id \notin ReachedIn({e[2] : e \in {d \in ComponentEdges : d[1] = id}},
                            Cardinality(LiveIds))

RECURSIVE LongestPathTo(_)
LongestPathTo(id) ==
    IF Predecessors(id) = {} THEN 0
    ELSE 1 + Max({LongestPathTo(p) : p \in Predecessors(id)})

RowOf(c) == (c.y - 160) \div (Max(Heights(components)) + 120)
LaidOut == lastOp.op = "autoLayout" /\ lastOp.result = "laid"

\* C24: after autoLayout on an acyclic graph every component stands in the row of
\* its layer, 0 without an incoming edge and otherwise 1 + the largest layer of its
\* predecessors; every edge goes to a strictly higher layer; and within a layer the
\* components stand from left to right in the order of their ids
C24_LongestPathLayers ==
    (LaidOut /\ Acyclic) =>
        /\ \A i \in 1..Len(components) :
                components[i].y = 160 + LongestPathTo(components[i].id)
                                            * (Max(Heights(components)) + 120)
        /\ \A i, j \in 1..Len(components) :
                <<components[i].id, components[j].id>> \in ComponentEdges
                    => RowOf(components[i]) < RowOf(components[j])
        /\ \A i, j \in 1..Len(components) :
                (/\ RowOf(components[i]) = RowOf(components[j])
                 /\ localeCompare(components[i].id, components[j].id) < 0)
                    => components[i].x < components[j].x

\* the diamond A->B, A->C, B->D, C->D laid out: A alone in layer 0, B left of C in
\* layer 1, D alone in layer 2
C24_DiamondLaidOut ==
    /\ LaidOut
    /\ ComponentEdges = {<<PlainId("A"), PlainId("B")>>, <<PlainId("A"), PlainId("C")>>,
                         <<PlainId("B"), PlainId("D")>>, <<PlainId("C"), PlainId("D")>>}
    /\ \E a, b, c, d \in 1..Len(components) :
            /\ components[a].id = PlainId("A") /\ RowOf(components[a]) = 0
            /\ components[b].id = PlainId("B") /\ RowOf(components[b]) = 1
            /\ components[c].id = PlainId("C") /\ RowOf(components[c]) = 1
            /\ components[d].id = PlainId("D") /\ RowOf(components[d]) = 2
            /\ components[b].x < components[c].x
            /\ components[1].id = PlainId("C")

\* C25: autoLayout returns on every graph, also when no component has in-degree 0
\* and all components are seeded as roots
C25_LayoutReturns == lastOp.op = "autoLayout" => lastOp.result # "hang"

\* C26: when autoLayout runs right after autoLayout on an acyclic graph, every
\* component stays in its layer and every layer keeps its left-to-right order
C26_SecondLayoutSame ==
    [][(LaidOut /\ lastOp'.op = "autoLayout" /\ Acyclic) =>
            /\ Len(components') = Len(components)
            /\ \A i \in 1..Len(components) :
                    /\ components'[i].id = components[i].id
                    /\ RowOf(components[i])' = RowOf(components[i])
            /\ \A i, j \in 1..Len(components) :
                    RowOf(components[i]) = RowOf(components[j])
                        => ((components'[i].x < components'[j].x)
                                <=> (components[i].x < components[j].x))]_vars

\* an acyclic graph with two components in one layer, laid out twice in a row
C26_LaidOutTwice ==
    /\ LaidOut
    /\ Acyclic
    /\ steps = 3
    /\ Len(undoStack) = 4
    /\ ComponentEdges # {}
    /\ \E i, j \in 1..Len(components) :
            i # j /\ RowOf(components[i]) = RowOf(components[j])

\* C27: right after every finishConnection (whether it gave a pair that was added,
\* a pair that was refused, or nothing) and after every cancelConnection nothing
\* is pending; and finishConnection with nothing pending gives no pair and
\* changes neither the graph, the history, the counters nor the selection
C27_FinishClearsPending ==
    [][/\ (lastOp'.op = "finishConnection" \/ lastOp'.result = "cancelled")
            => (~isCreatingConnection' /\ startPort' = NoString)
       /\ (lastOp'.op = "finishConnection" /\ ~isCreatingConnection)
            => /\ lastOp'.result = "null"
               /\ UNCHANGED <<graphVars, historyVars, counterVars, connectVars,
                              selectedComponents>>]_vars

\* a pending connection was finished on an input port and refused by validation
C27_RefusedAndCleared ==
    /\ lastOp.op = "finishConnection"
    /\ lastOp.result = "invalid"
    /\ lastOp.from # NoArg
    /\ ~isCreatingConnection
    /\ startPort = NoString

\* the validator resolves both port keys (component by the text before the first
\* dash, port by the rest) to an output and an input of live components, and the
\* types of the two differ from "any" and from each other
TypesClash(fromPort, toPort) ==
    /\ HasComponent(components, SplitFirst(fromPort))
    /\ HasComponent(components, SplitFirst(toPort))
    /\ \E p \in Range(ComponentById(components, SplitFirst(fromPort)).outputs),
          q \in Range(ComponentById(components, SplitFirst(toPort)).inputs) :
            /\ fromPort = PortKey(SplitFirst(fromPort), p.id)
            /\ toPort = PortKey(SplitFirst(toPort), q.id)
            /\ p.type # "any"
            /\ q.type # "any"
            /\ p.type # q.type

\* C28: when a pending connection is finished on an input port and the two ports
\* resolve with clashing types, validateConnection answers valid with a warning
\* and the pair is in the connection set afterwards
C28_MismatchStillConnects ==
    [][(/\ lastOp'.op = "finishConnection"
        /\ isCreatingConnection
        /\ startPort # NoString
        /\ TypesClash(startPort, lastOp'.arg))
            => /\ validateConnection(startPort, lastOp'.arg, components).valid
               /\ validateConnection(startPort, lastOp'.arg, components).warning
                        = "Type mismatch"
               /\ [from |-> startPort, to |-> lastOp'.arg] \in Range(connections')
               /\ lastOp'.result \in {"accepted", "duplicate"}]_vars

\* the object output of class A was connected to the string input of function B
C28_ObjectToStringAdded ==
    /\ lastOp.op = "finishConnection"
    /\ lastOp.result = "accepted"
    /\ TypesClash(lastOp.from, lastOp.to)
    /\ [from |-> lastOp.from, to |-> lastOp.to] \in Range(connections)
    /\ lastOp.saved

\* C29: right after an addPort or a port removal that was committed, the stored
\* height of the component is max(100, 25 + (max(|inputs|, |outputs|) + 1) * 30)
C29_HeightByPortCount ==
    (lastOp.op \in {"addPort", "removePort"} /\ lastOp.saved) =>
        \A i \in 1..Len(components) :
            components[i].id = lastOp.arg
                => components[i].height =
                        Max2(100, 25 + (Max2(Len(components[i].inputs),
                                             Len(components[i].outputs)) + 1) * 30)

\* the objects a snapshot or the clipboard holds
StoredBlocks == refs.undo \o refs.redo \o <<refs.clip>>

\* C30: the objects follow the graph, the stacks and the clipboard place by place,
\* and no object stands in two of them: not in the live graph and a stored copy,
\* not in two stored copies, and not twice in one.  So a handler that edits live
\* components in place reaches no stored snapshot and no clipboard entry, and
\* editing the graph that undo or redo loaded does not reach the snapshot it came from
C30_StoredCopiesApart ==
    /\ Len(refs.live) = Len(components)
    /\ Len(refs.undo) = Len(undoStack)
    /\ Len(refs.redo) = Len(redoStack)
    /\ Len(refs.clip) = Len(clipboard)
    /\ \A k \in 1..Len(undoStack) : Len(refs.undo[k]) = Len(undoStack[k].components)
    /\ \A k \in 1..Len(redoStack) : Len(refs.redo[k]) = Len(redoStack[k].components)
    /\ \A k \in 1..Len(StoredBlocks) :
            /\ Range(StoredBlocks[k]) \cap Range(refs.live) = {}
            /\ Cardinality(Range(StoredBlocks[k])) = Len(StoredBlocks[k])
            /\ \A m \in 1..Len(StoredBlocks) :
                    m # k => Range(StoredBlocks[k]) \cap Range(StoredBlocks[m]) = {}

\* a component was copied and then edited in place, and a snapshot came back by
\* undo: the clipboard still holds the component as it was copied
C30_CopiedThenEdited ==
    /\ lastOp.op = "undo"
    /\ lastOp.result = "restored"
    /\ clipboard # <<>>
    /\ redoStack # <<>>
    /\ \E i \in 1..Len(Last(redoStack).components) :
            /\ Last(redoStack).components[i].id = clipboard[1].id
            /\ Last(redoStack).components[i] # clipboard[1]

\* C31: Escape empties the selection, clears a pending connection, and abandons a
\* rename in progress with the component keeping the name it had
C31_EscapeCancels ==
    [][lastOp'.op = "escape" =>
            /\ selectedComponents' = {}
            /\ ~isCreatingConnection'
            /\ editing.active => (components' = components /\ ~editing'.active)]_vars

\* the interaction modes that are active
ActiveModes ==
    {m \in {"dragging", "boxSelecting", "connecting", "editing"} :
        \/ m = "dragging" /\ dragState.dragging
        \/ m = "boxSelecting" /\ isSelecting
        \/ m = "connecting" /\ isCreatingConnection
        \/ m = "editing" /\ editing.active}

\* C32: at most one interaction mode is active in every state, and the release of
\* the mouse button ends box selection
C32_OneModeAtATime ==
    [][/\ Cardinality(ActiveModes') <= 1
       /\ lastOp'.op = "mouseup" => ~isSelecting']_vars

\* the preset a key names: the preset of that name, otherwise ecommerce
PresetOf(key) == IF key = "realtime_analytics_gateway" THEN key ELSE "ecommerce"

\* C33: right after createPresetBlueprint(key) the components are the nodes of the
\* preset the key names (ecommerce for an unknown key), one each with the node's name
\* and type, and the connections are its edges, one each from the first output port
\* of the source's component to the first input port of the target's
C33_PresetReplacesGraph ==
    lastOp.op = "createPresetBlueprint" =>
        /\ Len(components) = Len(presetNodes(PresetOf(lastOp.doc)))
        /\ \A i \in 1..Len(components) :
                /\ components[i].name = presetNodes(PresetOf(lastOp.doc))[i].name
                /\ components[i].type = presetNodes(PresetOf(lastOp.doc))[i].type
        /\ Len(connections) = Len(presetEdges(PresetOf(lastOp.doc)))
        /\ \A k \in 1..Len(connections) :
                \E a, b \in 1..Len(components) :
                    /\ components[a].name = presetEdges(PresetOf(lastOp.doc))[k][1]
                    /\ components[b].name = presetEdges(PresetOf(lastOp.doc))[k][2]
                    /\ connections[k] =
                            [from |-> PortKey(components[a].id, components[a].outputs[1].id),
                             to |-> PortKey(components[b].id, components[b].inputs[1].id)]

\* C34: a rename committed by blur or Enter with a value that is non-empty after
\* trimming stores the trimmed value as the component's name and pushes one
\* snapshot; committed with an empty or blank value, or ended by Escape, it leaves
\* the name as it was and pushes none
C34_RenameCommits ==
    [][/\ (lastOp'.op \in {"enterName", "blurName"} /\ trimmedValue(editing) # "")
            => /\ \A i \in 1..Len(components') :
                    components'[i].id = editing.id
                        => components'[i].name = trimmedValue(editing)
               /\ undoStack' = Append(undoStack, Snapshot(components', connections'))
       /\ (\/ lastOp'.op \in {"enterName", "blurName"} /\ trimmedValue(editing) = ""
           \/ lastOp'.op = "escape" /\ editing.active)
            => (components' = components /\ undoStack' = undoStack)]_vars


\* C35 (as the specification states it): deleteComponent(id) keeps every connection
\* neither of whose endpoints is a port of component id, in the order they had, and
\* leaves every other component as it was, also in diagrams whose ids run past
\* component-9
PortsOfComponent(componentId) ==
    IF HasComponent(components, componentId)
    THEN RenderedPorts(<<ComponentById(components, componentId)>>, "outputs")
            \cup RenderedPorts(<<ComponentById(components, componentId)>>, "inputs")
    ELSE {}

C35_DeleteOnlyTouchesOwn ==
    [][lastOp'.op = "deleteComponent" =>
        /\ connections' = SelectSeq(connections, LAMBDA conn :
                conn.from \notin PortsOfComponent(lastOp'.arg)
                /\ conn.to \notin PortsOfComponent(lastOp'.arg))
        /\ components' = SelectSeq(components, LAMBDA c : c.id # lastOp'.arg)]_vars

\* C36 (as the specification states it): in every state reached by selecting,
\* dragging, deleting, undo, redo, loading a blueprint and loading a preset, every
\* id in the selection set is the id of a component of the live diagram
C36_SelectionIsLive == selectedComponents \subseteq LiveIds


\* C37 (as the specification states it): an undo that found a snapshot, immediately
\* followed by a redo, leaves the live diagram as it was before the undo (the undo
\* put a copy of it on top of the redo stack), the redo stack as it was (without
\* that copy) and the undo stack as long as it was; and every undo and redo that
\* finds a snapshot takes one off one stack and puts one on the other, so that the
\* sum of the two lengths stays
C37_UndoRedoInverse ==
    [][/\ (lastOp.op = "undo" /\ lastOp.result = "restored" /\ lastOp'.op = "redo")
            => /\ Snapshot(components', connections') = Last(redoStack)
               /\ redoStack' = Front(redoStack)
               /\ Front(undoStack') = undoStack
               /\ Last(undoStack').connections = connections
               /\ \A i \in 1..Len(components) :
                        Last(undoStack').components[i].id = components[i].id
       /\ (lastOp'.op = "undo" /\ lastOp'.result = "restored")
            => Len(undoStack') = Len(undoStack) - 1 /\ Len(redoStack') = Len(redoStack) + 1
       /\ (lastOp'.op = "redo" /\ lastOp'.result = "restored")
            => Len(undoStack') = Len(undoStack) + 1 /\ Len(redoStack') = Len(redoStack) - 1
       /\ lastOp'.op \in {"undo", "redo"}
            => Len(undoStack') + Len(redoStack') = Len(undoStack) + Len(redoStack)]_vars


\* C38 (as the specification states it): after an autoLayout that completed on
\* components of positive width and height, no two components' boxes overlap on
\* both axes
BoxesOverlap(a, b) ==
    /\ Min2(a.x + a.width, b.x + b.width) - Max2(a.x, b.x) > 0
    /\ Min2(a.y + a.height, b.y + b.height) - Max2(a.y, b.y) > 0

C38_LayoutSeparates ==
    (/\ lastOp.op = "autoLayout"
     /\ lastOp.result = "laid"
     /\ \A i \in 1..Len(components) : components[i].width > 0 /\ components[i].height > 0)
        => \A i, j \in 1..Len(components) :
                i # j => ~BoxesOverlap(components[i], components[j])

====
